---- MODULE Spec2Model ----
(***************************************************************************)
(* A model of the relocalisation component of spaint                       *)
(* (SLAMComponentWithScoreForest.cpp): process_relocalisation, the         *)
(* generation of pose hypotheses by a pool of workers, hypothesize_pose,   *)
(* the trim step and the preemptive RANSAC loop of estimate_pose,          *)
(* sample_pixels_for_ransac and compute_pose_energy.                       *)
(*                                                                         *)
(* Lengths are integers in millimetres (0.3 m = 300), colours are bytes,   *)
(* mode energies are integers in units of 1e-6 and pose energies are       *)
(* integers in units of 0.1 (one tenth of a decade of -log10).             *)
(***************************************************************************)
EXTENDS Integers, Sequences, FiniteSets, TLC

\* ------------------------------------------------------------ tunables
\* The values set by the constructor.  Counts that size the state space are
\* scaled down; the scaled ones are the bounds of this model.
m_kInitRansac == 4                             \* 1024 in the source
m_nbPointsForKabschBoostrap == 3
m_useAllModesPerLeafInPoseHypothesisGeneration == TRUE
m_checkMinDistanceBetweenSampledModes == TRUE
m_minDistanceBetweenSampledModes == 300        \* 0.3f m
m_checkRigidTransformationConstraint == FALSE
m_translationErrorMaxForCorrectPose == 50      \* 0.05f m
m_batchSizeRansac == 2                         \* 500 in the source
m_trimKinitAfterFirstEnergyComputation == 3    \* 64 in the source
m_poseUpdate == FALSE
nbThreads == 2                                 \* 12 in the source
maxIterationsOuter == 2                        \* 20 in the source
maxIterationsInner == 8                        \* 6000 in the source
maxSampleTries == 3                            \* 50 in the source
colourTolerance == 30

\* ------------------------------------------------------------ arithmetic
Max(a, b) == IF a >= b THEN a ELSE b

Abs(a) == IF a < 0 THEN -a ELSE a

\* Vector3f: a triple of millimetres.
VecAdd(a, b) == <<a[1] + b[1], a[2] + b[2], a[3] + b[3]>>

VecSub(a, b) == <<a[1] - b[1], a[2] - b[2], a[3] - b[3]>>

SqLength(a) == a[1] * a[1] + a[2] * a[2] + a[3] * a[3]

RECURSIVE SqrtSearch(_, _, _)
SqrtSearch(n, lo, hi) ==
  IF lo >= hi THEN lo
  ELSE LET mid == (lo + hi + 1) \div 2
       IN IF mid * mid <= n THEN SqrtSearch(n, mid, hi)
          ELSE SqrtSearch(n, lo, mid - 1)

\* length(v): the Euclidean norm, rounded down to a whole millimetre.
length(a) == SqrtSearch(SqLength(a), 0, 40000)

\* Subtraction of two unsigned bytes, as Vector3u's operator- computes it.
ByteSub(a, b) == (a - b + 256) % 256

Min(a, b) == IF a <= b THEN a ELSE b

\* ------------------------------------------------------------ float
\* Single-precision values as the code computes them: sign, integer
\* significand m and exponent x of its last bit (the value is m * 2^x), with
\* not-a-number and the infinities; every operation forms the exact result
\* and rounds it to 24 significant bits, ties to even.
RECURSIVE Pow2(_)
Pow2(n) == IF n = 0 THEN 1 ELSE 2 * Pow2(n - 1)

mantissaBits == 24

NaN == [kind |-> "nan", neg |-> FALSE, m |-> 0, x |-> 0]

Inf(neg) == [kind |-> "inf", neg |-> neg, m |-> 0, x |-> 0]

\* The one representation of a value: an odd significand, or zero.
RECURSIVE Canon(_, _, _)
Canon(neg, m, x) ==
  IF m = 0 THEN [kind |-> "num", neg |-> FALSE, m |-> 0, x |-> 0]
  ELSE IF m % 2 = 0 THEN Canon(neg, m \div 2, x + 1)
  ELSE [kind |-> "num", neg |-> neg, m |-> m, x |-> x]

RECURSIVE ExcessBits(_)
ExcessBits(p) == IF p < Pow2(mantissaBits) THEN 0 ELSE 1 + ExcessBits(p \div 2)

\* Round to nearest, ties to even, of the exact value p * 2^x.
Round24(neg, p, x) ==
  LET s == ExcessBits(p)
      q == p \div Pow2(s)
      r == p % Pow2(s)
      up == s > 0 /\ (2 * r > Pow2(s) \/ (2 * r = Pow2(s) /\ q % 2 = 1))
  IN Canon(neg, IF up THEN q + 1 ELSE q, x + s)

\* static_cast<float> of an integer, and of a count of halves.
Float(n) == Canon(n < 0, Abs(n), 0)

Halves(n) == Canon(n < 0, Abs(n), -1)

Signed(a) == IF a.neg THEN 0 - a.m ELSE a.m

FNeg(a) == IF a.kind = "nan" \/ (a.kind = "num" /\ a.m = 0) THEN a ELSE [a EXCEPT !.neg = ~a.neg]

\* a + b
FAdd(a, b) ==
  IF a.kind = "nan" \/ b.kind = "nan" THEN NaN
  ELSE IF a.kind = "inf" /\ b.kind = "inf" THEN (IF a.neg = b.neg THEN a ELSE NaN)
  ELSE IF a.kind = "inf" THEN a
  ELSE IF b.kind = "inf" THEN b
  ELSE LET xm == IF a.x <= b.x THEN a.x ELSE b.x
           n == Signed(a) * Pow2(a.x - xm) + Signed(b) * Pow2(b.x - xm)
       IN Round24(n < 0, Abs(n), xm)

\* a - b
FSub(a, b) == FAdd(a, FNeg(b))

\* a * b
FMul(a, b) ==
  IF a.kind = "nan" \/ b.kind = "nan" THEN NaN
  ELSE IF a.kind = "inf" \/ b.kind = "inf"
  THEN (IF (a.kind = "num" /\ a.m = 0) \/ (b.kind = "num" /\ b.m = 0)
        THEN NaN ELSE Inf(a.neg # b.neg))
  ELSE Round24(a.neg # b.neg, a.m * b.m, a.x + b.x)

\* The least k with floor(n * 2^k / d) of 24 bits.
RECURSIVE QuotientShift(_, _, _)
QuotientShift(n, d, k) ==
  IF (n * Pow2(k)) \div d >= Pow2(mantissaBits - 1) THEN k ELSE QuotientShift(n, d, k + 1)

\* a / b
FDiv(a, b) ==
  IF a.kind = "nan" \/ b.kind = "nan" THEN NaN
  ELSE IF a.kind = "inf" THEN (IF b.kind = "inf" THEN NaN ELSE Inf(a.neg # b.neg))
  ELSE IF b.kind = "inf" THEN Float(0)
  ELSE IF b.m = 0 THEN (IF a.m = 0 THEN NaN ELSE Inf(a.neg # b.neg))
  ELSE IF a.m = 0 THEN Float(0)
  ELSE LET k == QuotientShift(a.m, b.m, 0)
           q == (a.m * Pow2(k)) \div b.m
           r == (a.m * Pow2(k)) % b.m
           up == 2 * r > b.m \/ (2 * r = b.m /\ q % 2 = 1)
       IN Canon(a.neg # b.neg, IF up THEN q + 1 ELSE q, a.x - b.x - k)

\* a < b, false when either is not a number
FLess(a, b) ==
  IF a.kind = "nan" \/ b.kind = "nan" THEN FALSE
  ELSE IF a.kind = "inf" THEN a.neg /\ ~(b.kind = "inf" /\ b.neg)
  ELSE IF b.kind = "inf" THEN ~b.neg
  ELSE LET xm == IF a.x <= b.x THEN a.x ELSE b.x
       IN Signed(a) * Pow2(a.x - xm) < Signed(b) * Pow2(b.x - xm)

\* The integer part of a number that is not negative.
Truncated(a) == IF a.x >= 0 THEN a.m * Pow2(a.x) ELSE a.m \div Pow2(0 - a.x)

\* ------------------------------------------------------------ random engines
\* std::mt19937 as a deterministic generator over a small state: one step
\* per draw, the value taken from its high bits.
RandModulus == 64

EngNext(s) == (21 * s + 13) % RandModulus

Seed(k) == k % RandModulus

defaultSeed == 5489

\* std::uniform_int_distribution<int>(lo, hi)(eng)
Draw(eng, lo, hi) ==
  [value |-> lo + ((EngNext(eng) \div 16) % (hi - lo + 1)), eng |-> EngNext(eng)]

\* ------------------------------------------------------------ images
\* m_featureImage->noDims
Width == 2

Height == 2

Pixels == 0 .. (Width * Height - 1)

\* The camera-space position of the patch at a pixel, and the offset of the
\* scene's true pose.
LocalPos(i) == <<(i % Width) * 400, (i \div Width) * 400, 1000>>

TrueOffset == <<100, 0, 0>>

BaseColour == <<100, 100, 100>>

Mode(p, c, n) == [position |-> p, colour |-> c, nbInliers |-> n]

PixelKinds ==
  {"invalid", "nomodes", "exact", "two", "zeroinl", "far", "brighter"}

\* RGBDPatchFeature: position.w < 0 marks an invalid feature.
Feature(i, kind) ==
  [position |-> LocalPos(i),
   w |-> IF kind = "invalid" THEN -1 ELSE 1,
   colour |-> BaseColour]

\* GPUForestPrediction: nbModes and the modes.
Prediction(i, kind) ==
  LET exact == VecAdd(LocalPos(i), TrueOffset)
      ms == CASE kind = "nomodes" -> <<>>
              [] kind = "two" ->
                   <<Mode(VecAdd(VecAdd(LocalPos(0), TrueOffset), <<100, 100, 0>>),
                          <<60, 100, 100>>, 1),
                     Mode(exact, BaseColour, 2)>>
              [] kind = "zeroinl" -> <<Mode(exact, BaseColour, 0)>>
              [] kind = "far" ->
                   <<Mode(VecAdd(LocalPos(i), <<5000, 0, 0>>), BaseColour, 1)>>
              [] kind = "brighter" -> <<Mode(exact, <<110, 100, 100>>, 2)>>
              [] OTHER -> <<Mode(exact, BaseColour, 2)>>
  IN [nbModes |-> Len(ms), modes |-> ms]

SceneKinds == [Pixels -> PixelKinds]

FeatureImage(k) == [i \in Pixels |-> Feature(i, k[i])]

\* The leaf image stands for the leaves reached at each pixel; the prediction
\* of a pixel is a function of its leaves.
LeafImage(k) == [i \in Pixels |-> k[i]]

PredictionsImage(leaves) == [i \in Pixels |-> Prediction(i, leaves[i])]

EmptyImage == <<>>

VARIABLES
  m_featureImage,       \* pixel -> RGBDPatchFeature
  m_leafImage,          \* pixel -> the leaves the forest reached
  m_predictionsImage,   \* pixel -> GPUForestPrediction
  hypEng,               \* the engine handed to hypothesize_pose
  hypPc,                \* "call" before hypothesize_pose ran, "done" after
  hypOut,               \* what hypothesize_pose returned
  pc,                   \* where process_relocalisation stands
  frame,                \* the view: what the camera sees at each pixel
  validDepths,          \* CountValidDepths(inputDepthImage)
  trackingResult,       \* the parameter and local of process_relocalisation
  trackingState,        \* pose_d and trackerResult
  callLog,              \* the calls made so far, in order
  result,               \* the value returned by process_relocalisation
  candidates,           \* estimate_pose: the vector of pose candidates
  nbGenerated,          \* candidates.size() after generate_pose_candidates
  schedule,             \* loop index -> the worker that runs it
  wpc,                  \* worker -> its place in the loop body
  widx,                 \* worker -> the loop index it runs
  wcand,                \* worker -> its local candidate
  wend,                 \* worker -> the end of the vector as emplace_back read it
  engs,                 \* worker -> its engine
  critical,             \* the worker inside the critical section
  accepted,             \* the loop indices whose hypothesis was kept
  random_engine,        \* estimate_pose's engine
  maskSampledPixels,    \* the mask of the main loop
  sampledPixelIdx,      \* the pixels of the current batch
  nbSamplesPerCamera,   \* the inlier count before the trim pass
  iteration,            \* the rounds of the main loop
  tunables,             \* the members set at lines 77-79 that the runs differ in
  thrown,               \* the exception in flight, "no" when none
  enQueries,            \* the best-mode queries handed to the energy loop
  enPc,                 \* "call" before the energy was computed, "done" after
  enOut                 \* what the energy loop gave

hypVars == <<hypEng, hypPc, hypOut>>

imageVars == <<m_featureImage, m_leafImage, m_predictionsImage>>

callVars == <<pc, frame, validDepths, trackingResult, trackingState, callLog, result, thrown>>

workerVars == <<schedule, wpc, widx, wcand, wend, engs, critical, accepted>>

ransacVars ==
  <<candidates, nbGenerated, random_engine, maskSampledPixels, sampledPixelIdx,
    nbSamplesPerCamera, iteration>>

relocVars == <<callVars, workerVars, ransacVars>>

energyVars == <<enQueries, enPc, enOut>>

VARIABLES
  inputData,            \* OpenCVUtil: the buffer of samples handed in
  width,                \* make_greyscale_image: the width of the image
  height,               \* make_greyscale_image: the height of the image
  order,                \* make_greyscale_image: ROW_MAJOR or COL_MAJOR
  scaleFunc,            \* make_greyscale_image: the scaling function
  outputData,           \* the bytes written to result.data, in order
  readLog,              \* the indices of inputData read, in order
  cursor,               \* the loop variables i, x and y
  greyPc,               \* "idle", "loop", "returned"
  outputRange,          \* ScaleDataToRange: minOutputValue and maxOutputValue
  functor,              \* the ScaleDataToRange built
  mapped,               \* the functor applied to each sample of the buffer
  rangePc               \* "idle", "construct", "apply", "done"

greyVars == <<width, height, order, scaleFunc, outputData, readLog, cursor, greyPc>>

rangeVars == <<outputRange, functor, mapped, rangePc>>

ocvVars == <<inputData, greyVars, rangeVars>>

VARIABLES
  tileArgs,             \* tile_image_patches: the arguments of the call
  tiled,                \* the tiled image: the value of each of its pixels
  tileK,                \* the number of images placed so far
  tilePc                \* "idle", "start", "place", "returned"

tileVars == <<tileArgs, tiled, tileK, tilePc>>

VARIABLES
  voxelLocationsMB,     \* mark_voxels: the coordinates of the voxels to mark
  voxelLabelsMB,        \* mark_voxels: the labels to mark them with
  scene,                \* the label of every voxel of the scene
  sceneBefore,          \* the scene as it was when mark_voxels was called
  marked,               \* the entries the scatter has processed
  markPc                \* "idle", "kernel", "returned"

markVars == <<voxelLocationsMB, voxelLabelsMB, scene, sceneBefore, marked, markPc>>

VARIABLES
  m_relativeTransformSamples,         \* scene pair -> the clusters of its samples
  m_sceneIDs,                         \* the scenes for which a sample was added
  m_estimatedGlobalPoses,             \* scene -> its global pose, if estimated
  m_relativeTransformSamplesChanged,  \* samples added since the last pose graph
  m_shouldTerminate,                  \* the atomic termination flag
  m_mutex,                            \* the thread holding the mutex, or "free"
  m_optimisationThread,               \* where the optimisation thread is
  graph,                              \* the pose graph the thread has built
  callerPc,                           \* where the calling thread is
  callArgs,                           \* the arguments of the add call in progress
  subReturned,                        \* what the calls of ..._sub returned
  returned,                           \* what the last add call returned
  addCount,                           \* how often each add call was made
  observed                            \* the accessor call in progress and its result

cpoSharedVars ==
  <<m_relativeTransformSamples, m_sceneIDs, m_estimatedGlobalPoses,
    m_relativeTransformSamplesChanged>>

cpoCallVars == <<callerPc, callArgs, subReturned, returned, addCount>>

cpoThreadVars == <<m_optimisationThread, graph>>

cpoVars == <<cpoSharedVars, m_shouldTerminate, m_mutex, cpoThreadVars, cpoCallVars, observed>>

libVars == <<ocvVars, tileVars, markVars, cpoVars>>

coreVars == <<imageVars, hypVars, relocVars, energyVars, tunables>>

nonOcvVars == <<coreVars, tileVars, markVars, cpoVars>>

nonTileVars == <<coreVars, ocvVars, markVars, cpoVars>>

nonMarkVars == <<coreVars, ocvVars, tileVars, cpoVars>>

nonCpoVars == <<coreVars, ocvVars, tileVars, markVars>>

\* ------------------------------------------------------------ hypothesize_pose
ModeAt(linearIdx, modeIdx) == m_predictionsImage[linearIdx].modes[modeIdx + 1]

LinearIdx(x, y) == y * Width + x

\* lines 563-566
ConsistentColour(featureColour, modeColour) ==
  \A c \in 1 .. 3 : Abs(ByteSub(featureColour[c], modeColour[c])) <= colourTolerance

\* The comparison the other way round.
TooCloseFlipped(distOther) == distOther > m_minDistanceBetweenSampledModes

\* lines 594-595: the comparison that rejects a mode too close to a chosen one
TooClose(distOther) == distOther < m_minDistanceBetweenSampledModes

\* lines 579-600
FarEnough(selected, worldPt) ==
  \A idxOther \in 1 .. Len(selected) :
    LET o == selected[idxOther]
        worldPtOther == ModeAt(LinearIdx(o[1], o[2]), o[3]).position
    IN ~TooClose(length(VecSub(worldPtOther, worldPt)))

\* lines 611-643
ViolatesConditions(selected, x, y, modeIdx) ==
  \E m \in 1 .. Len(selected) :
    LET o == selected[m]
        linearIdxOther == LinearIdx(o[1], o[2])
        distWorld == length(VecSub(ModeAt(linearIdxOther, o[3]).position,
                                   ModeAt(LinearIdx(x, y), modeIdx).position))
        distLocal == length(VecSub(m_featureImage[linearIdxOther].position,
                                   m_featureImage[LinearIdx(x, y)].position))
    IN \/ distLocal < m_minDistanceBetweenSampledModes
       \/ 2 * Abs(distLocal - distWorld) > m_translationErrorMaxForCorrectPose

\* One iteration of the inner loop (lines 535-650): draw a pixel and a mode,
\* and append them unless a check rejects them.
HypTry(selected, eng) ==
  LET dx == Draw(eng, 0, Width - 1)
      dy == Draw(dx.eng, 0, Height - 1)
      x == dx.value
      y == dy.value
      linearFeatureIdx == LinearIdx(x, y)
      selectedFeature == m_featureImage[linearFeatureIdx]
      selectedPrediction == m_predictionsImage[linearFeatureIdx]
      dm == IF m_useAllModesPerLeafInPoseHypothesisGeneration
            THEN Draw(dy.eng, 0, selectedPrediction.nbModes - 1)
            ELSE [value |-> 0, eng |-> dy.eng]
      selectedModeIdx == dm.value
      skip(e) == [selected |-> selected, eng |-> e]
  IN IF selectedFeature.w < 0 THEN skip(dy.eng)
     ELSE IF selectedPrediction.nbModes = 0 THEN skip(dy.eng)
     ELSE IF /\ selected = <<>>
             /\ ~ConsistentColour(selectedFeature.colour,
                                  ModeAt(linearFeatureIdx, selectedModeIdx).colour)
          THEN skip(dm.eng)
     ELSE IF /\ m_checkMinDistanceBetweenSampledModes
             /\ ~FarEnough(selected,
                           ModeAt(linearFeatureIdx, selectedModeIdx).position)
          THEN skip(dm.eng)
     ELSE IF /\ m_checkRigidTransformationConstraint
             /\ ViolatesConditions(selected, x, y, selectedModeIdx)
          THEN skip(dm.eng)
     ELSE [selected |-> Append(selected, <<x, y, selectedModeIdx>>), eng |-> dm.eng]

\* The inner loop (lines 532-652); the count of iterations is returned too.
RECURSIVE HypInnerLoop(_, _, _)
HypInnerLoop(selected, eng, iterationsInner) ==
  IF Len(selected) # m_nbPointsForKabschBoostrap /\ iterationsInner < maxIterationsInner
  THEN LET t == HypTry(selected, eng)
       IN HypInnerLoop(t.selected, t.eng, iterationsInner + 1)
  ELSE [selected |-> selected, eng |-> eng, iterationsInner |-> iterationsInner]

\* Helpers::Kabsch(localPoints, worldPoints): the rigid alignment of the
\* chosen points, here the translation between their centroids.
RECURSIVE VecSum(_, _)
VecSum(f, n) == IF n = 0 THEN <<0, 0, 0>> ELSE VecAdd(VecSum(f, n - 1), f[n])

Kabsch(localPoints, worldPoints) ==
  LET d == VecSub(VecSum(worldPoints, Len(worldPoints)),
                  VecSum(localPoints, Len(localPoints)))
      n == Len(localPoints)
  IN <<d[1] \div n, d[2] \div n, d[3] \div n>>

NoPose == <<0, 0, 0>>

\* PoseCandidate
Candidate(pose, inliers, energy, id) ==
  [cameraPose |-> pose, inliers |-> inliers, energy |-> energy, cameraId |-> id]

\* lines 660-696: the candidate built from the chosen pixels and modes
BuildCandidate(selected) ==
  LET linearIdx(s) == LinearIdx(selected[s][1], selected[s][2])
      localPoints == [s \in 1 .. Len(selected) |-> m_featureImage[linearIdx(s)].position]
      worldPoints == [s \in 1 .. Len(selected) |->
                        ModeAt(linearIdx(s), selected[s][3]).position]
      tmpInliers == [s \in 1 .. Len(selected) |-> <<linearIdx(s), selected[s][3]>>]
  IN Candidate(Kabsch(localPoints, worldPoints), tmpInliers, 0, -1)

\* The outer loop and the return (lines 521-703).
RECURSIVE HypOuterLoop(_, _, _, _, _)
HypOuterLoop(eng, found, iterationsOuter, res, draws) ==
  IF ~found /\ iterationsOuter < maxIterationsOuter
  THEN LET in == HypInnerLoop(<<>>, eng, 0)
       IN IF Len(in.selected) # m_nbPointsForKabschBoostrap
          THEN [ok |-> FALSE, res |-> res, eng |-> in.eng, selected |-> in.selected,
                iterationsOuter |-> iterationsOuter + 1,
                draws |-> draws + in.iterationsInner]
          ELSE HypOuterLoop(in.eng, TRUE, iterationsOuter + 1,
                            [res |-> BuildCandidate(in.selected),
                             selected |-> in.selected],
                            draws + in.iterationsInner)
  ELSE [ok |-> iterationsOuter < maxIterationsOuter, res |-> res.res, eng |-> eng,
        selected |-> res.selected, iterationsOuter |-> iterationsOuter,
        draws |-> draws]

hypothesize_pose(eng) ==
  LET r == HypOuterLoop(eng, FALSE, 0,
                        [res |-> Candidate(NoPose, <<>>, 0, -1), selected |-> <<>>], 0)
  IN [ok |-> r.ok,
      res |-> IF Len(r.selected) = m_nbPointsForKabschBoostrap
              THEN r.res ELSE Candidate(NoPose, <<>>, 0, -1),
      eng |-> r.eng, selected |-> r.selected,
      iterationsOuter |-> r.iterationsOuter, draws |-> r.draws]

\* ------------------------------------------------------------ the forest backend
\* GPUForestPrediction::get_best_mode_and_energy(point, energy): the mode of
\* the prediction that explains the point best and its energy, a negative
\* index when no mode does.  The density of a mode falls with the distance
\* of the point from it and underflows to 0 far away.
ModeDensity(sqDist) ==
  IF sqDist <= 30 * 30 THEN 5000000
  ELSE IF sqDist <= 100 * 100 THEN 100000
  ELSE IF sqDist <= 300 * 300 THEN 1000
  ELSE IF sqDist <= 1000 * 1000 THEN 1
  ELSE 0

RECURSIVE BestModeFrom(_, _, _, _, _)
BestModeFrom(pred, point, m, argmax, maxScore) ==
  IF m > pred.nbModes THEN [argmax |-> argmax, energy |-> maxScore]
  ELSE LET score == ModeDensity(SqLength(VecSub(point, pred.modes[m].position)))
       IN IF score > maxScore
          THEN BestModeFrom(pred, point, m + 1, m - 1, score)
          ELSE BestModeFrom(pred, point, m + 1, argmax, maxScore)

get_best_mode_and_energy(pred, point) == BestModeFrom(pred, point, 1, -1, 0)

\* ------------------------------------------------------------ compute_pose_energy
PowerOfTen(k) == [i \in 0 .. 9 |-> CASE i = 0 -> 1 [] i = 1 -> 10 [] i = 2 -> 100
                                     [] i = 3 -> 1000 [] i = 4 -> 10000
                                     [] i = 5 -> 100000 [] i = 6 -> 1000000
                                     [] i = 7 -> 10000000 [] i = 8 -> 100000000
                                     [] OTHER -> 1000000000][k]

\* 1000 * 10^(j/10) for j = 0 .. 9
TenthDecade == <<1000, 1259, 1585, 1995, 2512, 3162, 3981, 5012, 6310, 7943>>

\* log10 of a positive integer in tenths, rounded down.
Log10Tenths(e) ==
  LET d == CHOOSE k \in 0 .. 8 : PowerOfTen(k) <= e /\ e < PowerOfTen(k + 1)
      above(j) == IF d >= 3 THEN e >= TenthDecade[j + 1] * PowerOfTen(d - 3)
                  ELSE e * PowerOfTen(3 - d) >= TenthDecade[j + 1]
      j == CHOOSE i \in 0 .. 9 : above(i) /\ (i = 9 \/ ~above(i + 1))
  IN 10 * d + j

\* The floor of the normalised energy, 1e-6f (line 962).
energyFloor == 1

\* -log10f(energy) in tenths, for an energy in units of 1e-6.
NegLog10f(energy) == 60 - Log10Tenths(energy)

\* The term without the division by the mode count.
InlierTermNoModes(energy, nbModes, nbInliers) ==
  LET normalised == energy \div nbInliers
      floored == IF normalised < energyFloor THEN energyFloor ELSE normalised
  IN NegLog10f(floored)

\* Lines 959-964: what one inlier adds to totalEnergy, from the energy of its
\* best mode, the mode count of its prediction and the mode's inlier count.
InlierTerm(energy, nbModes, nbInliers) ==
  LET normalised == (energy \div nbModes) \div nbInliers
      floored == IF normalised < energyFloor THEN energyFloor ELSE normalised
  IN NegLog10f(floored)

\* A best-mode query as compute_pose_energy reads it: argmax, energy, the
\* prediction's nbModes and the matched mode's nbInliers.
Query(argmax, energy, nbModes, nbInliers) ==
  [argmax |-> argmax, energy |-> energy, nbModes |-> nbModes, nbInliers |-> nbInliers]

\* The loop with "a simple continue" for a mode without inliers.
RECURSIVE AccumulateEnergySkipping(_, _, _)
AccumulateEnergySkipping(queries, s, totalEnergy) ==
  IF s > Len(queries) THEN [thrown |-> "no", totalEnergy |-> totalEnergy]
  ELSE LET q == queries[s]
       IN IF q.argmax < 0
          THEN [thrown |-> "prediction has no valid modes", totalEnergy |-> totalEnergy]
          ELSE IF q.nbInliers = 0
          THEN AccumulateEnergySkipping(queries, s + 1, totalEnergy)
          ELSE AccumulateEnergySkipping(queries, s + 1,
                 totalEnergy + InlierTerm(q.energy, q.nbModes, q.nbInliers))

\* The loop of lines 933-965 over the queries of the inliers, in order: the
\* first query without a valid mode or whose mode has no inliers throws.
RECURSIVE AccumulateEnergy(_, _, _)
AccumulateEnergy(queries, s, totalEnergy) ==
  IF s > Len(queries) THEN [thrown |-> "no", totalEnergy |-> totalEnergy]
  ELSE LET q == queries[s]
       IN IF q.argmax < 0
          THEN [thrown |-> "prediction has no valid modes", totalEnergy |-> totalEnergy]
          ELSE IF q.nbInliers = 0
          THEN [thrown |-> "mode has no inliers", totalEnergy |-> totalEnergy]
          ELSE AccumulateEnergy(queries, s + 1,
                                totalEnergy + InlierTerm(q.energy, q.nbModes, q.nbInliers))

\* Line 967: totalEnergy / inliersIndices.size(); 0/0 is not a number.
EnergyOf(queries) ==
  LET a == AccumulateEnergy(queries, 1, 0)
  IN [thrown |-> a.thrown,
      nan |-> a.thrown = "no" /\ Len(queries) = 0,
      value |-> IF a.thrown = "no" /\ Len(queries) > 0
                THEN a.totalEnergy \div Len(queries) ELSE 0]

\* Lines 935-944: the query of one inlier under a candidate pose.
InlierQuery(candidateCameraPose, inlier) ==
  LET linearIdx == inlier[1]
      projectedPixel == VecAdd(candidateCameraPose, m_featureImage[linearIdx].position)
      pred == m_predictionsImage[linearIdx]
      best == get_best_mode_and_energy(pred, projectedPixel)
  IN Query(best.argmax, best.energy, pred.nbModes,
           IF best.argmax < 0 THEN 0 ELSE pred.modes[best.argmax + 1].nbInliers)

compute_pose_energy(candidateCameraPose, inliersIndices) ==
  EnergyOf([s \in 1 .. Len(inliersIndices) |->
              InlierQuery(candidateCameraPose, inliersIndices[s])])

\* ------------------------------------------------------------ sample_pixels_for_ransac
\* The mask of sampled pixels: empty (the trim pass hands in an empty vector)
\* or one flag per pixel.
EmptyMask == [empty |-> TRUE, marked |-> {}]

ClearMask == [empty |-> FALSE, marked |-> {}]

\* The check of the prediction without the check of the feature.
ValidPixelAnyFeature(linearIdx) == m_predictionsImage[linearIdx].nbModes > 0

\* Lines 848-853: the pixel can serve as an inlier.
ValidPixel(linearIdx) ==
  /\ m_featureImage[linearIdx].w >= 0
  /\ m_predictionsImage[linearIdx].nbModes > 0

\* The mask not consulted.
UnsampledAlways(mask, linearIdx) == TRUE

\* Lines 855-856: an empty mask lets every pixel pass, a mask with flags
\* those not sampled yet.
Unsampled(mask, linearIdx) == mask.empty \/ linearIdx \notin mask.marked

\* Lines 839-867: the draws for one slot of the batch.
RECURSIVE SampleSlot(_, _, _, _)
SampleSlot(mask, sampled, eng, innerIterations) ==
  IF innerIterations < maxSampleTries
  THEN LET dx == Draw(eng, 0, Width - 1)
           dy == Draw(dx.eng, 0, Height - 1)
           linearIdx == LinearIdx(dx.value, dy.value)
           validIndex == ValidPixel(linearIdx) /\ Unsampled(mask, linearIdx)
       IN IF validIndex
          THEN [validIndex |-> TRUE,
                mask |-> IF mask.empty THEN mask
                         ELSE [mask EXCEPT !.marked = @ \cup {linearIdx}],
                sampled |-> Append(sampled, <<dx.value, dy.value>>),
                eng |-> dy.eng]
          ELSE SampleSlot(mask, sampled, dy.eng, innerIterations + 1)
  ELSE [validIndex |-> FALSE, mask |-> mask, sampled |-> sampled, eng |-> eng]

\* Lines 834-875: the batch, cut short at the first slot that finds no pixel.
RECURSIVE SampleBatch(_, _, _, _, _)
SampleBatch(mask, sampled, eng, i, batchSize) ==
  IF i < batchSize
  THEN LET r == SampleSlot(mask, sampled, eng, 0)
       IN IF r.validIndex THEN SampleBatch(r.mask, r.sampled, r.eng, i + 1, batchSize)
          ELSE [mask |-> r.mask, sampled |-> r.sampled, eng |-> r.eng, shortfall |-> TRUE]
  ELSE [mask |-> mask, sampled |-> sampled, eng |-> eng, shortfall |-> FALSE]

sample_pixels_for_ransac(mask, eng, batchSize) == SampleBatch(mask, <<>>, eng, 0, batchSize)

\* ------------------------------------------------------------ inliers and energies
\* A batch cut short is dropped.
AppendFullBatchOnly(inliers, samples) ==
  IF Len(samples) < m_batchSizeRansac THEN inliers
  ELSE inliers \o [s \in 1 .. Len(samples) |->
                     <<LinearIdx(samples[s][1], samples[s][2]), -1>>]

\* Lines 883-895: every sampled pixel is appended to every candidate, with
\* no mode assigned.
AppendSamples(inliers, samples) ==
  inliers \o [s \in 1 .. Len(samples) |->
                <<LinearIdx(samples[s][1], samples[s][2]), -1>>]

\* The batch appended to the first candidate only.
UpdateFirstOnly(samples, poseCandidates) ==
  [p \in 1 .. Len(poseCandidates) |->
     IF p = 1
     THEN [poseCandidates[p] EXCEPT
             !.inliers = @ \o [s \in 1 .. Len(samples) |->
                                 <<LinearIdx(samples[s][1], samples[s][2]), -1>>]]
     ELSE poseCandidates[p]]

\* Lines 878-896
update_inliers_for_optimization(samples, poseCandidates) ==
  [p \in 1 .. Len(poseCandidates) |->
     [poseCandidates[p] EXCEPT !.inliers = AppendSamples(@, samples)]]

\* Lines 903-914: the energies; an exception of any candidate ends the loop.
Thrower(poseCandidates) ==
  {p \in 1 .. Len(poseCandidates) :
     compute_pose_energy(poseCandidates[p].cameraPose,
                         poseCandidates[p].inliers).thrown # "no"}

WithEnergies(poseCandidates) ==
  [p \in 1 .. Len(poseCandidates) |->
     [poseCandidates[p] EXCEPT
        !.energy = compute_pose_energy(poseCandidates[p].cameraPose,
                                       poseCandidates[p].inliers).value]]

\* A descending order.
EnergyGreater(a, b) == a.energy > b.energy

\* Lines 917-919: the order std::sort is asked for.
EnergyLess(a, b) == a.energy < b.energy

\* The results std::sort may give: the permutations with no element before
\* one that compares less than it.
SortedOrders(poseCandidates) ==
  LET n == Len(poseCandidates)
  IN {[i \in 1 .. n |-> poseCandidates[q[i]]] :
        q \in {r \in Permutations(1 .. n) :
                 \A i, j \in 1 .. n :
                   i < j => ~EnergyLess(poseCandidates[r[j]], poseCandidates[r[i]])}}

NoEnergy == [thrown |-> "no", nan |-> FALSE, value |-> 0]

EnergyIdle ==
  /\ enQueries = <<>>
  /\ enPc = "done"
  /\ enOut = NoEnergy

NoHypOut ==
  [ok |-> FALSE, res |-> Candidate(NoPose, <<>>, 0, -1), eng |-> 0,
   selected |-> <<>>, iterationsOuter |-> 0, draws |-> 0]

HypIdle ==
  /\ hypEng = 0
  /\ hypPc = "done"
  /\ hypOut = NoHypOut

NoFunctor ==
  [m_minInputValue |-> Float(0), m_minOutputValue |-> Float(0),
   m_scalingFactor |-> Float(0)]

GreyIdle ==
  /\ width = 0
  /\ height = 0
  /\ order = "ROW_MAJOR"
  /\ scaleFunc = [kind |-> "identity"]
  /\ outputData = <<>>
  /\ readLog = <<>>
  /\ cursor = [i |-> 0, x |-> 0, y |-> 0]
  /\ greyPc = "idle"

RangeIdle ==
  /\ outputRange = [min |-> 0, max |-> 0]
  /\ functor = NoFunctor
  /\ mapped = <<>>
  /\ rangePc = "idle"

OcvIdle == inputData = <<>> /\ GreyIdle /\ RangeIdle

NoTileArgs ==
  [images |-> <<>>, tileCols |-> 0, tileRows |-> 0, patchWidth |-> 0, patchHeight |-> 0,
   paddingSize |-> 0]

TileIdle ==
  /\ tileArgs = NoTileArgs
  /\ tiled = <<>>
  /\ tileK = 0
  /\ tilePc = "idle"

MarkIdle ==
  /\ voxelLocationsMB = <<>>
  /\ voxelLabelsMB = <<>>
  /\ scene = <<>>
  /\ sceneBefore = <<>>
  /\ marked = {}
  /\ markPc = "idle"

\* The scenes of a collaborative reconstruction; the first is the primary one.
primarySceneID == "World"

Scenes == {primarySceneID, "A", "B"}

ScenePairs == {q \in Scenes \X Scenes : q[1] # q[2]}

\* boost::none, and an optional that holds a value.
Absent == [present |-> FALSE]

Some(v) == [present |-> TRUE, value |-> v]

\* The calls of add_relative_transform_sample made: two samples of World-A
\* that are not close to each other, and two of A-B that agree, one given
\* from A to B and one from B to A.
AddInputs ==
  {[sceneI |-> "World", sceneJ |-> "A", sample |-> 1],
   [sceneI |-> "World", sceneJ |-> "A", sample |-> 2],
   [sceneI |-> "A", sceneJ |-> "B", sample |-> 1],
   [sceneI |-> "B", sceneJ |-> "A", sample |-> -1]}

NoArgs == [sceneI |-> "", sceneJ |-> "", sample |-> 0]

NoCall == [called |-> FALSE]

\* A collaborative pose optimiser as its constructor leaves it.
CpoConstructed ==
  /\ m_relativeTransformSamples = [q \in ScenePairs |-> <<>>]
  /\ m_sceneIDs = {}
  /\ m_estimatedGlobalPoses = [s \in Scenes |-> Absent]
  /\ m_relativeTransformSamplesChanged = FALSE
  /\ m_shouldTerminate = FALSE
  /\ m_mutex = "free"
  /\ m_optimisationThread = "none"
  /\ graph = <<>>
  /\ callerPc = "idle"
  /\ callArgs = NoArgs
  /\ subReturned = <<>>
  /\ returned = [type |-> "none"]
  /\ addCount = [a \in AddInputs |-> 0]
  /\ observed = NoCall

CpoIdle == CpoConstructed

\* The utility classes other than the two functions on buffers are not in use.
UtilIdle == TileIdle /\ MarkIdle /\ CpoIdle

LibIdle == OcvIdle /\ UtilIdle

NoImages ==
  /\ m_featureImage = EmptyImage
  /\ m_leafImage = EmptyImage
  /\ m_predictionsImage = EmptyImage

\* ------------------------------------------------------------ process_relocalisation
TrackingResults == {"TRACKING_GOOD", "TRACKING_POOR", "TRACKING_FAILED"}

Workers == 0 .. (nbThreads - 1)

NoWorker == -1

LoopIndices == 0 .. (m_kInitRansac - 1)

\* The pose the tracker lost, before any relocalisation.
LostPose == <<7, 7, 7>>

NoCandidate == Candidate(NoPose, <<>>, 0, -1)

\* The members as the constructor sets them (lines 77-79).
Constructed ==
  [m_trimKinitAfterFirstEnergyComputation |-> m_trimKinitAfterFirstEnergyComputation,
   m_poseUpdate |-> m_poseUpdate]

\* The state of the members estimate_pose and its workers use, outside a call.
RelocRest ==
  /\ candidates = <<>>
  /\ nbGenerated = 0
  /\ schedule = [i \in LoopIndices |-> 0]
  /\ wpc = [w \in Workers |-> "idle"]
  /\ widx = [w \in Workers |-> -1]
  /\ wcand = [w \in Workers |-> NoCandidate]
  /\ wend = [w \in Workers |-> 0]
  /\ engs = [w \in Workers |-> 0]
  /\ critical = NoWorker
  /\ accepted = {}
  /\ random_engine = 0
  /\ maskSampledPixels = EmptyMask
  /\ sampledPixelIdx = <<>>
  /\ nbSamplesPerCamera = 0
  /\ iteration = 0
  /\ tunables = Constructed
  /\ thrown = "no"

RelocIdle ==
  /\ pc = "idle"
  /\ frame = [i \in Pixels |-> "invalid"]
  /\ validDepths = 0
  /\ trackingResult = "TRACKING_GOOD"
  /\ trackingState = [pose_d |-> LostPose, trackerResult |-> "TRACKING_GOOD"]
  /\ callLog = <<>>
  /\ result = "pending"
  /\ RelocRest

CoreIdle == HypIdle /\ RelocIdle /\ EnergyIdle /\ NoImages

\* The views the calls are run on: every kind of pixel occurs.
AllowedKinds ==
  [i \in Pixels |->
     CASE i = 0 -> {"exact", "two", "invalid"}
       [] i = 1 -> {"exact", "two", "nomodes"}
       [] i = 2 -> {"exact", "zeroinl", "brighter"}
       [] OTHER -> {"exact", "far", "two"}]

Frames == {k \in SceneKinds : \A i \in Pixels : k[i] \in AllowedKinds[i]}

\* Line 130: std::max(m_nbPointsForKabschBoostrap, m_batchSizeRansac)
MinValidDepths == Max(m_nbPointsForKabschBoostrap, m_batchSizeRansac)

DepthCounts == 0 .. MinValidDepths

\* The call: a tracking result, a view and its count of valid depths.  The
\* images of the component are the empty ones the constructor allocates.
Init ==
  /\ m_featureImage = EmptyImage
  /\ m_leafImage = EmptyImage
  /\ m_predictionsImage = EmptyImage
  /\ HypIdle
  /\ EnergyIdle
  /\ LibIdle
  /\ pc = "entry"
  /\ frame \in Frames
  /\ validDepths \in DepthCounts
  /\ trackingResult \in TrackingResults
  /\ trackingState = [pose_d |-> LostPose, trackerResult |-> trackingResult]
  /\ callLog = <<>>
  /\ result = "pending"
  /\ RelocRest

Log(call) == callLog' = Append(callLog, call)

\* The guard without the std::max: the batch size alone.
TooFewDepthsBatchOnly(count) == count < m_batchSizeRansac

\* Lines 129-130: the guard on the count of valid depths.
TooFewDepths(count) == count < MinValidDepths

\* The relocalisation attempted whatever the result that came in.
EnterAnyResult ==
  /\ pc = "entry"
  /\ IF TooFewDepths(validDepths)
     THEN /\ pc' = "returned"
          /\ result' = trackingResult
     ELSE /\ pc' = "ComputeFeature"
          /\ UNCHANGED result
  /\ UNCHANGED <<imageVars, hypVars, energyVars, libVars, tunables, frame, validDepths,
                 trackingResult, trackingState, callLog, thrown, workerVars, ransacVars>>

\* Lines 122-136 and 162: a result other than TRACKING_FAILED, or too few
\* valid depths, returns the parameter as it came.
Enter ==
  /\ pc = "entry"
  /\ IF trackingResult # "TRACKING_FAILED" \/ TooFewDepths(validDepths)
     THEN /\ pc' = "returned"
          /\ result' = trackingResult
     ELSE /\ pc' = "ComputeFeature"
          /\ UNCHANGED result
  /\ UNCHANGED <<imageVars, hypVars, energyVars, libVars, tunables, frame, validDepths, trackingResult, trackingState,
                 callLog, thrown, workerVars, ransacVars>>

\* evaluate_forest, lines 400-401
ComputeFeature ==
  /\ pc = "ComputeFeature"
  /\ m_featureImage' = FeatureImage(frame)
  /\ Log("ComputeFeature")
  /\ pc' = "evaluate_forest"
  /\ UNCHANGED <<m_leafImage, m_predictionsImage, hypVars, energyVars, libVars, tunables, frame, validDepths,
                 trackingResult, trackingState, result, thrown, workerVars, ransacVars>>

\* evaluate_forest, line 409
EvaluateForest ==
  /\ pc = "evaluate_forest"
  /\ m_leafImage' = LeafImage(frame)
  /\ Log("evaluate_forest")
  /\ pc' = "get_predictions"
  /\ UNCHANGED <<m_featureImage, m_predictionsImage, hypVars, energyVars, libVars, tunables, frame, validDepths,
                 trackingResult, trackingState, result, thrown, workerVars, ransacVars>>

\* evaluate_forest, line 417
GetPredictions ==
  /\ pc = "get_predictions"
  /\ m_predictionsImage' = PredictionsImage(m_leafImage)
  /\ Log("get_predictions")
  /\ pc' = "estimate_pose"
  /\ UNCHANGED <<m_featureImage, m_leafImage, hypVars, energyVars, libVars, tunables, frame, validDepths,
                 trackingResult, trackingState, result, thrown, workerVars, ransacVars>>

\* ------------------------------------------------------------ generate_pose_candidates
\* The loop indices a static schedule gives each worker, in blocks or in turn.
BlockSize == (m_kInitRansac + nbThreads - 1) \div nbThreads

Schedules ==
  {[i \in LoopIndices |-> i \div BlockSize], [i \in LoopIndices |-> i % nbThreads]}

\* estimate_pose up to the parallel loop (lines 707-720, 471-484): the engine
\* of estimate_pose is default-seeded, engine i is seeded with i + 1.
EstimateBegin ==
  /\ pc = "estimate_pose"
  /\ Log("estimate_pose")
  /\ random_engine' = Seed(defaultSeed)
  /\ candidates' = <<>>
  /\ engs' = [w \in Workers |-> Seed(w + 1)]
  /\ schedule' \in Schedules
  /\ wpc' = [w \in Workers |-> "loop"]
  /\ widx' = [w \in Workers |-> -1]
  /\ accepted' = {}
  /\ pc' = "generate"
  /\ UNCHANGED <<imageVars, hypVars, energyVars, libVars, tunables, frame, validDepths, trackingResult, trackingState,
                 result, thrown, wcand, wend, critical, nbGenerated, maskSampledPixels,
                 sampledPixelIdx, nbSamplesPerCamera, iteration>>

Remaining(w) == {i \in LoopIndices : schedule[i] = w /\ i > widx[w]}

Lowest(S) == CHOOSE i \in S : \A j \in S : i <= j

\* One engine, that of worker 0, drawn from by all the workers.
WorkerIterateSharedEngine(w) ==
  /\ pc = "generate"
  /\ wpc[w] = "loop"
  /\ Remaining(w) # {}
  /\ \E i \in {Lowest(Remaining(w))}, h \in {hypothesize_pose(engs[0])} :
        /\ widx' = [widx EXCEPT ![w] = i]
        /\ engs' = [engs EXCEPT ![0] = h.eng]
        /\ IF h.ok /\ h.res.inliers # <<>>
           THEN /\ wcand' = [wcand EXCEPT ![w] = [h.res EXCEPT !.cameraId = i]]
                /\ wpc' = [wpc EXCEPT ![w] = "critical"]
                /\ accepted' = accepted \cup {i}
           ELSE /\ wcand' = [wcand EXCEPT ![w] = NoCandidate]
                /\ UNCHANGED <<wpc, accepted>>
  /\ UNCHANGED <<imageVars, hypVars, energyVars, libVars, tunables, callVars, ransacVars,
                 schedule, wend, critical>>

\* Lines 487-494: one iteration of the loop body up to the critical section.
WorkerIterate(w) ==
  /\ pc = "generate"
  /\ wpc[w] = "loop"
  /\ Remaining(w) # {}
  /\ \E i \in {Lowest(Remaining(w))}, h \in {hypothesize_pose(engs[w])} :
        /\ widx' = [widx EXCEPT ![w] = i]
        /\ engs' = [engs EXCEPT ![w] = h.eng]
        /\ IF h.ok /\ h.res.inliers # <<>>
           THEN /\ wcand' = [wcand EXCEPT ![w] = [h.res EXCEPT !.cameraId = i]]
                /\ wpc' = [wpc EXCEPT ![w] = "critical"]
                /\ accepted' = accepted \cup {i}
           ELSE /\ wcand' = [wcand EXCEPT ![w] = NoCandidate]
                /\ UNCHANGED <<wpc, accepted>>
  /\ UNCHANGED <<imageVars, hypVars, energyVars, libVars, tunables, callVars, ransacVars, schedule, wend, critical>>

\* The loop body without the critical section.
CriticalAlwaysFree(holder) == TRUE

\* Line 496: #pragma omp critical lets one worker in at a time.
CriticalFree(holder) == holder = NoWorker

\* Line 497: emplace_back reads the end of the vector ...
WorkerEnterCritical(w) ==
  /\ pc = "generate"
  /\ wpc[w] = "critical"
  /\ CriticalFree(critical)
  /\ critical' = w
  /\ wend' = [wend EXCEPT ![w] = Len(candidates)]
  /\ wpc' = [wpc EXCEPT ![w] = "emplace"]
  /\ UNCHANGED <<imageVars, hypVars, energyVars, libVars, tunables, callVars, ransacVars, schedule, widx, wcand, engs,
                 accepted>>

\* ... and constructs the candidate there; the critical section ends.
WorkerEmplace(w) ==
  /\ pc = "generate"
  /\ wpc[w] = "emplace"
  /\ candidates' = Append(SubSeq(candidates, 1, wend[w]), wcand[w])
  /\ critical' = NoWorker
  /\ wpc' = [wpc EXCEPT ![w] = "loop"]
  /\ UNCHANGED <<imageVars, hypVars, energyVars, libVars, tunables, callVars, schedule, widx, wcand, wend, engs,
                 accepted, nbGenerated, random_engine, maskSampledPixels, sampledPixelIdx,
                 nbSamplesPerCamera, iteration>>

\* A worker with no index left waits at the end of the parallel loop.
WorkerFinish(w) ==
  /\ pc = "generate"
  /\ wpc[w] = "loop"
  /\ Remaining(w) = {}
  /\ wpc' = [wpc EXCEPT ![w] = "barrier"]
  /\ UNCHANGED <<imageVars, hypVars, energyVars, libVars, tunables, callVars, ransacVars, schedule, widx, wcand, wend,
                 engs, critical, accepted>>

\* The end of the parallel loop; line 726 then decides on the trim.
GenerateJoin ==
  /\ pc = "generate"
  /\ \A w \in Workers : wpc[w] = "barrier"
  /\ nbGenerated' = Len(candidates)
  /\ pc' = "trim_test"
  /\ UNCHANGED <<imageVars, hypVars, energyVars, libVars, tunables, frame, validDepths, trackingResult, trackingState,
                 callLog, result, thrown, workerVars, candidates, random_engine,
                 maskSampledPixels, sampledPixelIdx, nbSamplesPerCamera, iteration>>

\* ------------------------------------------------------------ estimate_pose
\* Line 726: the trim runs when more candidates than the trim size came.
TrimNeeded(size) == tunables.m_trimKinitAfterFirstEnergyComputation < size

TrimTest ==
  /\ pc = "trim_test"
  /\ IF TrimNeeded(Len(candidates))
     THEN /\ nbSamplesPerCamera' = Len(candidates[1].inliers)
          /\ pc' = "trim_sample"
     ELSE /\ UNCHANGED nbSamplesPerCamera
          /\ pc' = "loop_init"
  /\ UNCHANGED <<imageVars, hypVars, energyVars, libVars, tunables, frame, validDepths, trackingResult, trackingState,
                 callLog, result, thrown, workerVars, candidates, nbGenerated,
                 random_engine, maskSampledPixels, sampledPixelIdx, iteration>>

\* Lines 733-743: the batch of the trim pass, sampled with an empty mask.
TrimSample ==
  /\ pc = "trim_sample"
  /\ LET r == sample_pixels_for_ransac(EmptyMask, random_engine, m_batchSizeRansac)
     IN /\ sampledPixelIdx' = r.sampled
        /\ random_engine' = r.eng
  /\ pc' = "trim_update"
  /\ UNCHANGED <<imageVars, hypVars, energyVars, libVars, tunables, frame, validDepths, trackingResult, trackingState,
                 callLog, result, thrown, workerVars, candidates, nbGenerated,
                 maskSampledPixels, nbSamplesPerCamera, iteration>>

\* Lines 750 and 800
UpdateInliers(at, next) ==
  /\ pc = at
  /\ candidates' = update_inliers_for_optimization(sampledPixelIdx, candidates)
  /\ pc' = next
  /\ UNCHANGED <<imageVars, hypVars, energyVars, libVars, tunables, frame, validDepths, trackingResult, trackingState,
                 callLog, result, thrown, workerVars, nbGenerated, random_engine,
                 maskSampledPixels, sampledPixelIdx, nbSamplesPerCamera, iteration>>

TrimUpdate == UpdateInliers("trim_update", "trim_energies")

\* What becomes of an exception thrown inside the parallel loop of
\* compute_and_sort_energies, which no handler of this component catches: the
\* OpenMP runtime ends the program, or, built without OpenMP, the exception
\* leaves estimate_pose and process_relocalisation.
ThrowOutcomes == {"terminated", "propagated"}

\* Lines 758 and 807: compute_and_sort_energies.
ComputeAndSort(at, next) ==
  /\ pc = at
  /\ IF Thrower(candidates) # {}
     THEN /\ \E p \in Thrower(candidates) :
               thrown' = compute_pose_energy(candidates[p].cameraPose,
                                             candidates[p].inliers).thrown
          /\ pc' \in ThrowOutcomes
          /\ UNCHANGED candidates
     ELSE /\ candidates' \in SortedOrders(WithEnergies(candidates))
          /\ pc' = next
          /\ UNCHANGED thrown
  /\ UNCHANGED <<imageVars, hypVars, energyVars, libVars, tunables, frame, validDepths, trackingResult, trackingState,
                 callLog, result, workerVars, nbGenerated, random_engine,
                 maskSampledPixels, sampledPixelIdx, nbSamplesPerCamera, iteration>>

TrimEnergies == ComputeAndSort("trim_energies", "trim_erase")

\* Lines 769-771: an inlier list cut back to its length before the batch.
CutBack(samples, size) ==
  IF Len(samples) > size THEN SubSeq(samples, 1, size) ELSE samples

\* Lines 761-773: the candidates kept by the trim.
Trimmed(poseCandidates, size) ==
  LET kept == SubSeq(poseCandidates, 1, tunables.m_trimKinitAfterFirstEnergyComputation)
  IN IF tunables.m_trimKinitAfterFirstEnergyComputation > 1
     THEN [p \in 1 .. Len(kept) |-> [kept[p] EXCEPT !.inliers = CutBack(@, size)]]
     ELSE kept

TrimErase ==
  /\ pc = "trim_erase"
  /\ candidates' = Trimmed(candidates, nbSamplesPerCamera)
  /\ pc' = "loop_init"
  /\ UNCHANGED <<imageVars, hypVars, energyVars, libVars, tunables, frame, validDepths, trackingResult, trackingState,
                 callLog, result, thrown, workerVars, nbGenerated, random_engine,
                 maskSampledPixels, sampledPixelIdx, nbSamplesPerCamera, iteration>>

\* Lines 784-786
LoopInit ==
  /\ pc = "loop_init"
  /\ maskSampledPixels' = ClearMask
  /\ iteration' = 0
  /\ pc' = "loop_test"
  /\ UNCHANGED <<imageVars, hypVars, energyVars, libVars, tunables, frame, validDepths, trackingResult, trackingState,
                 callLog, result, thrown, workerVars, candidates, nbGenerated,
                 random_engine, sampledPixelIdx, nbSamplesPerCamera>>

\* The loop entered with a single candidate too.
LoopRunsWithOne(size) == size > 0

\* Line 788: the condition of the main loop.
LoopRuns(size) == size > 1

\* Lines 792-797: a round begins with its batch of pixels not sampled before.
LoopSample ==
  /\ pc = "loop_test"
  /\ LoopRuns(Len(candidates))
  /\ iteration' = iteration + 1
  /\ LET r == sample_pixels_for_ransac(maskSampledPixels, random_engine, m_batchSizeRansac)
     IN /\ sampledPixelIdx' = r.sampled
        /\ maskSampledPixels' = r.mask
        /\ random_engine' = r.eng
  /\ pc' = "loop_update"
  /\ UNCHANGED <<imageVars, hypVars, energyVars, libVars, tunables, frame, validDepths, trackingResult, trackingState,
                 callLog, result, thrown, workerVars, candidates, nbGenerated,
                 nbSamplesPerCamera>>

\* Lines 1116-1119: the first statement throws; the candidate is as it was.
update_candidate_pose(poseCandidate) ==
  [thrown |-> "not updated yet", poseCandidate |-> poseCandidate]

\* Lines 970-985: update_candidate_pose on every candidate.
update_candidate_poses(poseCandidates) ==
  [thrown |-> IF \E p \in 1 .. Len(poseCandidates) :
                   update_candidate_pose(poseCandidates[p]).thrown # "no"
              THEN update_candidate_pose(poseCandidates[1]).thrown
              ELSE "no",
   poseCandidates |-> [p \in 1 .. Len(poseCandidates) |->
                         update_candidate_pose(poseCandidates[p]).poseCandidate]]

\* The poses updated whatever the member says.
PoseUpdateAlways(members) == TRUE

\* Line 802: the poses are updated when m_poseUpdate is set.
PoseUpdateWanted(members) == members.m_poseUpdate

\* Lines 800-805: the batch is appended to every candidate; with m_poseUpdate
\* set update_candidate_poses follows, and its exception, thrown inside a
\* parallel loop like that of the energies, has the same outcomes.
LoopUpdate ==
  /\ pc = "loop_update"
  /\ LET updated == update_inliers_for_optimization(sampledPixelIdx, candidates)
         posed == update_candidate_poses(updated)
     IN IF PoseUpdateWanted(tunables)
        THEN /\ candidates' = posed.poseCandidates
             /\ Log("update_candidate_poses")
             /\ IF posed.thrown # "no"
                THEN /\ thrown' = posed.thrown
                     /\ pc' \in ThrowOutcomes
                ELSE /\ pc' = "loop_energies"
                     /\ UNCHANGED thrown
        ELSE /\ candidates' = updated
             /\ pc' = "loop_energies"
             /\ UNCHANGED <<callLog, thrown>>
  /\ UNCHANGED <<imageVars, hypVars, energyVars, libVars, tunables, frame, validDepths,
                 trackingResult, trackingState, result, workerVars, nbGenerated,
                 random_engine, maskSampledPixels, sampledPixelIdx, nbSamplesPerCamera,
                 iteration>>

LoopEnergies == ComputeAndSort("loop_energies", "loop_erase")

\* The other half: the candidates of highest energy.
KeptWorseHalf(poseCandidates) ==
  SubSeq(poseCandidates, Len(poseCandidates) - (Len(poseCandidates) \div 2) + 1,
         Len(poseCandidates))

\* The half rounded up.
KeptHalfRoundedUp(poseCandidates) ==
  SubSeq(poseCandidates, 1, (Len(poseCandidates) + 1) \div 2)

\* Lines 810-811: the candidates that stay after a round.
KeptHalf(poseCandidates) == SubSeq(poseCandidates, 1, Len(poseCandidates) \div 2)

LoopErase ==
  /\ pc = "loop_erase"
  /\ candidates' = KeptHalf(candidates)
  /\ pc' = "loop_test"
  /\ UNCHANGED <<imageVars, hypVars, energyVars, libVars, tunables, frame, validDepths, trackingResult, trackingState,
                 callLog, result, thrown, workerVars, nbGenerated, random_engine,
                 maskSampledPixels, sampledPixelIdx, nbSamplesPerCamera, iteration>>

\* The tracker re-invoked whether or not a candidate came.
EstimateReturnTracks ==
  /\ pc = "loop_test"
  /\ ~LoopRuns(Len(candidates))
  /\ pc' = IF candidates # <<>> THEN "SetInvM" ELSE "Track"
  /\ UNCHANGED <<imageVars, hypVars, energyVars, libVars, tunables, frame, validDepths, trackingResult,
                 trackingState, callLog, result, thrown, workerVars, ransacVars>>

\* Line 814 and lines 141-159: the loop is left; with a candidate its pose is
\* installed, without one the result stays and is returned (line 162).
EstimateReturn ==
  /\ pc = "loop_test"
  /\ ~LoopRuns(Len(candidates))
  /\ IF candidates # <<>>
     THEN /\ pc' = "SetInvM"
          /\ UNCHANGED result
     ELSE /\ pc' = "returned"
          /\ result' = trackingResult
  /\ UNCHANGED <<imageVars, hypVars, energyVars, libVars, tunables, frame, validDepths, trackingResult, trackingState,
                 callLog, thrown, workerVars, ransacVars>>

\* Line 147
SetInvM ==
  /\ pc = "SetInvM"
  /\ trackingState' = [trackingState EXCEPT !.pose_d = candidates[1].cameraPose]
  /\ Log("SetInvM")
  /\ pc' = "UpdateVisibleList"
  /\ UNCHANGED <<imageVars, hypVars, energyVars, libVars, tunables, frame, validDepths, trackingResult, result, thrown,
                 workerVars, ransacVars>>

\* Lines 149-152: the visible list is rebuilt with resetVisibleList = true,
\* then the tracker is prepared for voxels.
UpdateVisibleList ==
  /\ pc = "UpdateVisibleList"
  /\ Log("UpdateVisibleList(reset)")
  /\ pc' = "prepare_for_tracking"
  /\ UNCHANGED <<imageVars, hypVars, energyVars, libVars, tunables, frame, validDepths, trackingResult, trackingState,
                 result, thrown, workerVars, ransacVars>>

PrepareForTracking ==
  /\ pc = "prepare_for_tracking"
  /\ Log("prepare_for_tracking(TRACK_VOXELS)")
  /\ pc' = "Track"
  /\ UNCHANGED <<imageVars, hypVars, energyVars, libVars, tunables, frame, validDepths, trackingResult, trackingState,
                 result, thrown, workerVars, ransacVars>>

\* Line 153: the tracker runs from the installed pose and leaves its result.
Track ==
  /\ pc = "Track"
  /\ \E r \in TrackingResults : trackingState' = [trackingState EXCEPT !.trackerResult = r]
  /\ Log("Track")
  /\ pc' = "read_result"
  /\ UNCHANGED <<imageVars, hypVars, energyVars, libVars, tunables, frame, validDepths, trackingResult, result, thrown,
                 workerVars, ransacVars>>

\* The return of the result the call came with, not the tracker's.
ReadResultStale ==
  /\ pc = "read_result"
  /\ result' = trackingResult
  /\ pc' = "returned"
  /\ UNCHANGED <<imageVars, hypVars, energyVars, libVars, tunables, frame, validDepths, trackingResult,
                 trackingState, callLog, thrown, workerVars, ransacVars>>

\* Lines 154 and 162
ReadResult ==
  /\ pc = "read_result"
  /\ trackingResult' = trackingState.trackerResult
  /\ result' = trackingState.trackerResult
  /\ pc' = "returned"
  /\ UNCHANGED <<imageVars, hypVars, energyVars, libVars, tunables, frame, validDepths, trackingState, callLog, thrown,
                 workerVars, ransacVars>>

Next ==
  \/ Enter
  \/ ComputeFeature
  \/ EvaluateForest
  \/ GetPredictions
  \/ EstimateBegin
  \/ \E w \in Workers : WorkerIterate(w)
  \/ \E w \in Workers : WorkerEnterCritical(w)
  \/ \E w \in Workers : WorkerEmplace(w)
  \/ \E w \in Workers : WorkerFinish(w)
  \/ GenerateJoin
  \/ TrimTest
  \/ TrimSample
  \/ TrimUpdate
  \/ TrimEnergies
  \/ TrimErase
  \/ LoopInit
  \/ LoopSample
  \/ LoopUpdate
  \/ LoopEnergies
  \/ LoopErase
  \/ EstimateReturn
  \/ SetInvM
  \/ UpdateVisibleList
  \/ PrepareForTracking
  \/ Track
  \/ ReadResult

\* ------------------------------------------------------------ SpecRansac
\* estimate_pose from line 726 on, after a generation that one thread ran:
\* a kInitRansac and a trim size that leave the main loop more than one
\* round, and either value of m_poseUpdate (line 78 or line 79).
MaxHypotheses == 5

RansacTrim == 4

\* Lines 485-499 as one worker runs them on its loop indices, in order, with
\* its engine: the candidates it emplaces.
RECURSIVE RunIndices(_, _)
RunIndices(eng, indices) ==
  IF indices = <<>> THEN <<>>
  ELSE CHOOSE emplaced \in
         {(IF h.ok /\ h.res.inliers # <<>>
           THEN <<[h.res EXCEPT !.cameraId = Head(indices)]>>
           ELSE <<>>) \o RunIndices(h.eng, Tail(indices)) :
            h \in {hypothesize_pose(eng)}} : TRUE

RansacInit ==
  /\ frame \in Frames
  /\ m_featureImage = FeatureImage(frame)
  /\ m_leafImage = LeafImage(frame)
  /\ m_predictionsImage = PredictionsImage(LeafImage(frame))
  /\ HypIdle
  /\ EnergyIdle
  /\ LibIdle
  /\ tunables \in [m_trimKinitAfterFirstEnergyComputation : {RansacTrim},
                    m_poseUpdate : BOOLEAN]
  /\ pc = "estimate_pose"
  /\ validDepths = MinValidDepths
  /\ trackingResult = "TRACKING_FAILED"
  /\ trackingState = [pose_d |-> LostPose, trackerResult |-> "TRACKING_FAILED"]
  /\ callLog = <<"ComputeFeature", "evaluate_forest", "get_predictions">>
  /\ result = "pending"
  /\ thrown = "no"
  /\ candidates = <<>>
  /\ nbGenerated = 0
  /\ schedule = [i \in LoopIndices |-> 0]
  /\ wpc = [w \in Workers |-> "idle"]
  /\ widx = [w \in Workers |-> -1]
  /\ wcand = [w \in Workers |-> NoCandidate]
  /\ wend = [w \in Workers |-> 0]
  /\ engs = [w \in Workers |-> 0]
  /\ critical = NoWorker
  /\ accepted = {}
  /\ random_engine = 0
  /\ maskSampledPixels = EmptyMask
  /\ sampledPixelIdx = <<>>
  /\ nbSamplesPerCamera = 0
  /\ iteration = 0

\* Lines 707-720 and 468-501 when one thread runs the whole loop, for a
\* kInitRansac of up to MaxHypotheses: engine 0, seeded with 1, serves every
\* index.
EstimateAlone ==
  /\ pc = "estimate_pose"
  /\ Log("estimate_pose")
  /\ random_engine' = Seed(defaultSeed)
  /\ engs' = [w \in Workers |-> Seed(w + 1)]
  /\ \E n \in 1 .. MaxHypotheses :
       /\ candidates' = RunIndices(Seed(1), [i \in 1 .. n |-> i - 1])
       /\ widx' = [w \in Workers |-> IF w = 0 THEN n - 1 ELSE -1]
  /\ nbGenerated' = Len(candidates')
  /\ accepted' = {candidates'[p].cameraId : p \in 1 .. Len(candidates')}
  /\ wpc' = [w \in Workers |-> "barrier"]
  /\ pc' = "trim_test"
  /\ UNCHANGED <<imageVars, hypVars, energyVars, libVars, tunables, frame, validDepths,
                 trackingResult, trackingState, result, thrown, schedule, wcand, wend,
                 critical, maskSampledPixels, sampledPixelIdx, nbSamplesPerCamera,
                 iteration>>

RansacNext ==
  \/ EstimateAlone
  \/ TrimTest
  \/ TrimSample
  \/ TrimUpdate
  \/ TrimEnergies
  \/ TrimErase
  \/ LoopInit
  \/ LoopSample
  \/ LoopUpdate
  \/ LoopEnergies
  \/ LoopErase
  \/ EstimateReturn
  \/ SetInvM

\* ------------------------------------------------------------ SpecHyp
\* One call of hypothesize_pose on any image and any engine state.
HypInit ==
  /\ \E k \in SceneKinds :
       /\ m_featureImage = FeatureImage(k)
       /\ m_leafImage = LeafImage(k)
       /\ m_predictionsImage = PredictionsImage(LeafImage(k))
  /\ hypEng \in 0 .. (RandModulus - 1)
  /\ hypPc = "call"
  /\ hypOut = NoHypOut
  /\ RelocIdle
  /\ EnergyIdle
  /\ LibIdle

HypCall ==
  /\ hypPc = "call"
  /\ hypPc' = "done"
  /\ hypOut' = hypothesize_pose(hypEng)
  /\ UNCHANGED <<imageVars, hypEng, relocVars, energyVars, libVars, tunables>>

HypNext == HypCall

\* ------------------------------------------------------------ SpecEnergy
\* The energy loop of compute_pose_energy on any list of best-mode queries.
EnergyValues == {0, 1, 1000000, 2000000, 30000000}

QueryValues ==
  {Query(a, e, m, n) : a \in {-1, 0}, e \in EnergyValues, m \in {1, 2}, n \in {0, 1, 2}}

MaxInliers == 2

QueryLists == UNION {[1 .. n -> QueryValues] : n \in 0 .. MaxInliers}

EnergyInit ==
  /\ m_featureImage = EmptyImage
  /\ m_leafImage = EmptyImage
  /\ m_predictionsImage = EmptyImage
  /\ HypIdle
  /\ RelocIdle
  /\ LibIdle
  /\ enQueries \in QueryLists
  /\ enPc = "call"
  /\ enOut = NoEnergy

EnergyCall ==
  /\ enPc = "call"
  /\ enPc' = "done"
  /\ enOut' = EnergyOf(enQueries)
  /\ UNCHANGED <<imageVars, hypVars, relocVars, enQueries, libVars, tunables>>

EnergyNext == EnergyCall

\* ------------------------------------------------------------ OpenCVUtil
\* identity<T>
identity(value) == value

\* ScaleByFactor::operator()
ScaleByFactor(m_factor, value) == FMul(value, m_factor)

\* std::max_element and std::min_element over the first n samples
RECURSIVE max_element(_, _)
max_element(data, n) ==
  IF n = 1 THEN data[1]
  ELSE LET rest == max_element(data, n - 1)
       IN IF FLess(rest, data[n]) THEN data[n] ELSE rest

RECURSIVE min_element(_, _)
min_element(data, n) ==
  IF n = 1 THEN data[1]
  ELSE LET rest == min_element(data, n - 1)
       IN IF FLess(data[n], rest) THEN data[n] ELSE rest

\* The range's scaling factor computed without the input range.
ScalingFactorOfOutputOnly(minOutputValue, maxOutputValue, minInputValue, maxInputValue) ==
  FSub(maxOutputValue, minOutputValue)

\* m_scalingFactor as the constructor computes it
ScalingFactor(minOutputValue, maxOutputValue, minInputValue, maxInputValue) ==
  FDiv(FSub(maxOutputValue, minOutputValue), FSub(maxInputValue, minInputValue))

\* ScaleDataToRange::ScaleDataToRange
ScaleDataToRange(data, inputDataSize, minOutputValue, maxOutputValue) ==
  LET maxInputValue == max_element(data, inputDataSize)
      minInputValue == min_element(data, inputDataSize)
  IN [m_minInputValue |-> minInputValue,
      m_minOutputValue |-> minOutputValue,
      m_scalingFactor |->
        ScalingFactor(minOutputValue, maxOutputValue, minInputValue, maxInputValue)]

\* ScaleDataToRange::operator()
MapToRange(f, inputValue) ==
  FAdd(f.m_minOutputValue, FMul(FSub(inputValue, f.m_minInputValue), f.m_scalingFactor))

\* scaleFunc(value) for the scaling functions of the three overloads
ApplyScale(f, value) ==
  CASE f.kind = "identity" -> identity(value)
    [] f.kind = "ScaleByFactor" -> ScaleByFactor(f.m_factor, value)
    [] OTHER -> MapToRange(f.range, value)

\* The two ifs of clamp_pixel_value.
Saturated(pixelValue) ==
  LET low == IF FLess(pixelValue, Float(0)) THEN Float(0) ELSE pixelValue
  IN IF FLess(Float(255), low) THEN Float(255) ELSE low

\* static_cast<unsigned char>: the integer part, modulo 256; of what is not
\* a number the standard leaves the result open.
CastToByte(v) ==
  IF v.kind = "num"
  THEN {(IF v.neg THEN 256 - (Truncated(v) % 256) ELSE Truncated(v)) % 256}
  ELSE {0, 255}

\* clamp_pixel_value: the bytes it can return
clamp_pixel_value(pixelValue) == CastToByte(Saturated(pixelValue))

\* Column-major data read as if it were row-major.
ColMajorIndexByRows(x, y) == y * width + x

\* The index the COL_MAJOR branch reads.
ColMajorIndex(x, y) == x * height + y

\* The ROW_MAJOR branch: one turn of the loop over i.
GreyRowStep ==
  /\ greyPc = "loop"
  /\ order = "ROW_MAJOR"
  /\ cursor.i < width * height
  /\ \E b \in clamp_pixel_value(ApplyScale(scaleFunc, inputData[cursor.i + 1])) :
       outputData' = Append(outputData, b)
  /\ readLog' = Append(readLog, cursor.i)
  /\ cursor' = [cursor EXCEPT !.i = @ + 1]
  /\ UNCHANGED <<inputData, width, height, order, scaleFunc, greyPc, rangeVars, nonOcvVars>>

\* The COL_MAJOR branch: one turn of the inner loop over x, inside the loop
\* over y.
GreyColStep ==
  /\ greyPc = "loop"
  /\ order = "COL_MAJOR"
  /\ cursor.y < height
  /\ \E idx \in {ColMajorIndex(cursor.x, cursor.y)} :
       /\ \E b \in clamp_pixel_value(ApplyScale(scaleFunc, inputData[idx + 1])) :
            outputData' = Append(outputData, b)
       /\ readLog' = Append(readLog, idx)
  /\ cursor' = IF cursor.x + 1 < width
               THEN [cursor EXCEPT !.x = @ + 1]
               ELSE [cursor EXCEPT !.x = 0, !.y = @ + 1]
  /\ UNCHANGED <<inputData, width, height, order, scaleFunc, greyPc, rangeVars, nonOcvVars>>

\* return result
GreyReturn ==
  /\ greyPc = "loop"
  /\ \/ order = "ROW_MAJOR" /\ cursor.i >= width * height
     \/ order = "COL_MAJOR" /\ cursor.y >= height
  /\ greyPc' = "returned"
  /\ UNCHANGED <<inputData, width, height, order, scaleFunc, outputData, readLog, cursor,
                 rangeVars, nonOcvVars>>

\* The samples of the buffers, in halves: -0.5, 127.5, 254.5 and 255.5.
GreySamples == {Halves(-1), Halves(255), Halves(509), Halves(511)}

MaxPixels == 4

GreyFuncs == {[kind |-> "identity"], [kind |-> "ScaleByFactor", m_factor |-> Float(2)]}

\* The range-normalising functor on a buffer: construction, then use.
RangeConstruct ==
  /\ rangePc = "construct"
  /\ functor' = ScaleDataToRange(inputData, Len(inputData), Float(outputRange.min),
                                 Float(outputRange.max))
  /\ rangePc' = "apply"
  /\ UNCHANGED <<inputData, greyVars, outputRange, mapped, nonOcvVars>>

RangeApply ==
  /\ rangePc = "apply"
  /\ mapped' = [i \in 1 .. Len(inputData) |-> MapToRange(functor, inputData[i])]
  /\ rangePc' = "done"
  /\ UNCHANGED <<inputData, greyVars, outputRange, functor, nonOcvVars>>

MaxSample == 10

MaxBuffer == 3

OutputRanges == {[min |-> 0, max |-> 255], [min |-> 0, max |-> 1], [min |-> 10, max |-> 20]}

\* ------------------------------------------------------------ tile_image_patches
\* Black, the colour of the padding; image number k is shown as k + 1.
Black == 0

\* The size of a tile: a patch with a border of paddingSize on every side.
PaddedWidth(a) == a.patchWidth + 2 * a.paddingSize

PaddedHeight(a) == a.patchHeight + 2 * a.paddingSize

\* The pixels of an image of the given size.
CanvasPixels(w, h) == (0 .. (w - 1)) \X (0 .. (h - 1))

\* The tiled image before any image is placed on it.
TiledCanvas(a) ==
  [p \in CanvasPixels(a.tileCols * PaddedWidth(a), a.tileRows * PaddedHeight(a)) |-> Black]

\* The images that are tiled: the surplus ones are ignored.
TiledCount(a) == Min(Len(a.images), a.tileCols * a.tileRows)

TileCellByColumns(k, a) == [row |-> k % a.tileRows, col |-> k \div a.tileRows]

\* The cell of the grid image number k goes to.
TileCell(k, a) == [row |-> k \div a.tileCols, col |-> k % a.tileCols]

\* The pixels of the patch of image number k: its tile without the border.
PatchPixels(k, a) ==
  {p \in CanvasPixels(a.tileCols * PaddedWidth(a), a.tileRows * PaddedHeight(a)) :
     /\ p[1] - TileCell(k, a).col * PaddedWidth(a) - a.paddingSize \in 0 .. (a.patchWidth - 1)
     /\ p[2] - TileCell(k, a).row * PaddedHeight(a) - a.paddingSize \in 0 .. (a.patchHeight - 1)}

\* Image number k, resized to a patch, is copied into its tile.
PlacePatch(canvas, k, a) ==
  [p \in DOMAIN canvas |-> IF p \in PatchPixels(k, a) THEN a.images[k + 1] ELSE canvas[p]]

TileAllocate ==
  /\ tilePc = "start"
  /\ tiled' = TiledCanvas(tileArgs)
  /\ tileK' = 0
  /\ tilePc' = "place"
  /\ UNCHANGED <<tileArgs, nonTileVars>>

TilePlace ==
  /\ tilePc = "place"
  /\ tileK < TiledCount(tileArgs)
  /\ tiled' = PlacePatch(tiled, tileK, tileArgs)
  /\ tileK' = tileK + 1
  /\ UNCHANGED <<tileArgs, tilePc, nonTileVars>>

TileReturn ==
  /\ tilePc = "place"
  /\ tileK >= TiledCount(tileArgs)
  /\ tilePc' = "returned"
  /\ UNCHANGED <<tileArgs, tiled, tileK, nonTileVars>>

MaxImages == 5

MaxGrid == 2

MaxPatch == 2

MaxPadding == 2

\* ------------------------------------------------------------ mark_voxels
MaxCoord == 1

\* The voxels of the scene: the coordinates that are valid in it.
Voxels == {<<x, y, 0>> : x \in 0 .. MaxCoord, y \in 0 .. 1}

\* The most entries a call marks.
MaxMarked == 3

\* The labels handed to mark_voxels, and those the scene starts with.
SuppliedLabels == {1, 2}

SceneLabels == {0, 255}

ScatterWriteFirstLabel(sc, locations, labels, i) == [sc EXCEPT ![locations[i]] = labels[1]]

\* Thread i of the kernel: writes label i into the voxel at coordinate i.
ScatterWrite(sc, locations, labels, i) == [sc EXCEPT ![locations[i]] = labels[i]]

\* One thread of the scatter runs; the threads run in any order.
MarkVoxel ==
  /\ markPc = "kernel"
  /\ \E i \in (1 .. Len(voxelLocationsMB)) \ marked :
       /\ scene' = ScatterWrite(scene, voxelLocationsMB, voxelLabelsMB, i)
       /\ marked' = marked \cup {i}
  /\ UNCHANGED <<voxelLocationsMB, voxelLabelsMB, sceneBefore, markPc, nonMarkVars>>

\* The kernel has run to completion: mark_voxels returns.
MarkReturn ==
  /\ markPc = "kernel"
  /\ marked = 1 .. Len(voxelLocationsMB)
  /\ markPc' = "returned"
  /\ UNCHANGED <<voxelLocationsMB, voxelLabelsMB, scene, sceneBefore, marked, nonMarkVars>>

\* The lists of the given length of pairwise distinct elements of a set.
DistinctSeqs(S, n) == {q \in [1 .. n -> S] : \A i, j \in 1 .. n : i # j => q[i] # q[j]}

\* ------------------------------------------------------------ CollaborativePoseOptimiser
\* Relative transforms are whole numbers: composing adds, inverting negates.
GetInvM(sample) == 0 - sample

\* The number of samples a cluster needs to be a confident one.
confidence_threshold == 2

\* The most calls of add_relative_transform_sample made.
MaxAdds == 4

\* Whether a sample is close enough to the representative of a cluster.
Close(representative, sample) == representative = sample

\* The cluster a sample goes to: the first one it is close to the
\* representative of, or a new one at the end.
ReceivingCluster(clusters, sample) ==
  IF \E k \in 1 .. Len(clusters) : Close(clusters[k][1], sample)
  THEN CHOOSE k \in 1 .. Len(clusters) :
         /\ Close(clusters[k][1], sample)
         /\ \A l \in 1 .. (k - 1) : ~Close(clusters[l][1], sample)
  ELSE Len(clusters) + 1

AddToClusters(clusters, sample) ==
  IF ReceivingCluster(clusters, sample) <= Len(clusters)
  THEN [clusters EXCEPT ![ReceivingCluster(clusters, sample)] = Append(@, sample)]
  ELSE Append(clusters, <<sample>>)

IsConfidentLater(cluster) == Len(cluster) > confidence_threshold

IsConfident(cluster) == Len(cluster) >= confidence_threshold

\* Adds the sample to the clusters of (sceneI, sceneJ); yields the new
\* samples and whether the cluster it was added to is now a confident one.
add_relative_transform_sample_sub(samples, sceneI, sceneJ, sample) ==
  [samples |-> [samples EXCEPT ![<<sceneI, sceneJ>>] = AddToClusters(@, sample)],
   confident |->
     IsConfident(AddToClusters(samples[<<sceneI, sceneJ>>], sample)
                   [ReceivingCluster(samples[<<sceneI, sceneJ>>], sample)])]

InverseEntrySame(sceneI, sceneJ) == <<sceneI, sceneJ>>

\* The scene pair the inverse of a sample of (sceneI, sceneJ) is added to.
InverseEntry(sceneI, sceneJ) == <<sceneJ, sceneI>>

\* The first of the largest clusters.
LargestOf(clusters) ==
  clusters[CHOOSE k \in 1 .. Len(clusters) :
             /\ \A l \in 1 .. Len(clusters) : Len(clusters[l]) <= Len(clusters[k])
             /\ \A l \in 1 .. (k - 1) : Len(clusters[l]) < Len(clusters[k])]

try_get_estimated_global_pose(poses, sceneID) == poses[sceneID]

SamplesEvenIfNone(samples, sceneI, sceneJ) == Some(samples[<<sceneI, sceneJ>>])

try_get_relative_transform_samples(samples, sceneI, sceneJ) ==
  IF samples[<<sceneI, sceneJ>>] = <<>> THEN Absent ELSE Some(samples[<<sceneI, sceneJ>>])

try_get_largest_cluster_sub(samples, sceneI, sceneJ) ==
  IF samples[<<sceneI, sceneJ>>] = <<>> THEN Absent
  ELSE Some(LargestOf(samples[<<sceneI, sceneJ>>]))

\* The mean of the largest cluster and the number of samples it is based on.
try_get_relative_transform_sub(samples, sceneI, sceneJ) ==
  IF ~try_get_largest_cluster_sub(samples, sceneI, sceneJ).present THEN Absent
  ELSE Some([pose |-> try_get_largest_cluster_sub(samples, sceneI, sceneJ).value[1],
             count |-> Len(try_get_largest_cluster_sub(samples, sceneI, sceneJ).value)])

\* The pose graph: the known scenes, and an edge for every scene pair whose
\* relative transform is based on a confident cluster.
BuildGraph(samples, ids) ==
  [ids |-> ids,
   edges |-> [q \in ScenePairs |->
                IF /\ try_get_relative_transform_sub(samples, q[1], q[2]).present
                   /\ try_get_relative_transform_sub(samples, q[1], q[2]).value.count
                        >= confidence_threshold
                THEN Some(try_get_relative_transform_sub(samples, q[1], q[2]).value.pose)
                ELSE Absent]]

\* The global poses of the scenes linked to a scene that has one.
RECURSIVE Propagate(_, _)
Propagate(poses, g) ==
  IF \A q \in ScenePairs : ~(poses[q[1]].present /\ ~poses[q[2]].present /\ g.edges[q].present)
  THEN poses
  ELSE LET q == CHOOSE e \in ScenePairs :
                  poses[e[1]].present /\ ~poses[e[2]].present /\ g.edges[e].present
       IN Propagate([poses EXCEPT ![q[2]] = Some(poses[q[1]].value + g.edges[q].value)], g)

\* One global pose per scene, anchored at the primary scene.
SolvePoseGraph(g) ==
  Propagate([s \in Scenes |-> IF s = primarySceneID /\ s \in g.ids THEN Some(0) ELSE Absent], g)

MutexIgnored == TRUE

\* boost::mutex: a lock is taken when no thread holds one.
MutexFree == m_mutex = "free"

NotifyLost(thread) == thread

\* notify_one: wakes the thread if it is waiting on the condition variable.
Notified(thread) == IF thread = "waiting" THEN "woken" ELSE thread

RECURSIVE SumOver(_, _)
SumOver(f, S) ==
  IF S = {} THEN 0
  ELSE LET a == CHOOSE x \in S : TRUE IN f[a] + SumOver(f, S \ {a})

\* start: spawns the optimisation thread.
Start ==
  /\ callerPc = "idle"
  /\ m_optimisationThread = "none"
  /\ m_optimisationThread' = "top"
  /\ UNCHANGED <<cpoSharedVars, m_shouldTerminate, m_mutex, graph, cpoCallVars, observed,
                 nonCpoVars>>

\* add_relative_transform_sample: locks the mutex and adds the sample.
AddBegin ==
  /\ callerPc = "idle"
  /\ SumOver(addCount, AddInputs) < MaxAdds
  /\ MutexFree
  /\ \E a \in AddInputs :
       /\ callArgs' = a
       /\ \E r \in {add_relative_transform_sample_sub(m_relativeTransformSamples, a.sceneI,
                                                        a.sceneJ, a.sample)} :
            /\ m_relativeTransformSamples' = r.samples
            /\ subReturned' = <<r.confident>>
  /\ m_mutex' = "caller"
  /\ callerPc' = "addInverse"
  /\ UNCHANGED <<m_sceneIDs, m_estimatedGlobalPoses, m_relativeTransformSamplesChanged,
                 m_shouldTerminate, cpoThreadVars, returned, addCount, observed, nonCpoVars>>

\* ... adds the inverse of the sample and registers the two scenes.
AddInverse ==
  /\ callerPc = "addInverse"
  /\ \E r \in {add_relative_transform_sample_sub(
                   m_relativeTransformSamples, InverseEntry(callArgs.sceneI, callArgs.sceneJ)[1],
                   InverseEntry(callArgs.sceneI, callArgs.sceneJ)[2], GetInvM(callArgs.sample))} :
       /\ m_relativeTransformSamples' = r.samples
       /\ subReturned' = Append(subReturned, r.confident)
  /\ m_sceneIDs' = m_sceneIDs \cup {callArgs.sceneI, callArgs.sceneJ}
  /\ callerPc' = "addSignal"
  /\ UNCHANGED <<m_estimatedGlobalPoses, m_relativeTransformSamplesChanged, m_shouldTerminate,
                 m_mutex, cpoThreadVars, callArgs, returned, addCount, observed, nonCpoVars>>

\* ... marks the samples as changed, signals the thread, unlocks and returns.
AddSignal ==
  /\ callerPc = "addSignal"
  /\ m_relativeTransformSamplesChanged' = TRUE
  /\ m_optimisationThread' = Notified(m_optimisationThread)
  /\ m_mutex' = "free"
  /\ returned' = [type |-> "void"]
  /\ addCount' = [addCount EXCEPT ![callArgs] = @ + 1]
  /\ callerPc' = "idle"
  /\ UNCHANGED <<m_relativeTransformSamples, m_sceneIDs, m_estimatedGlobalPoses,
                 m_shouldTerminate, graph, callArgs, subReturned, observed, nonCpoVars>>

\* terminate: sets the termination flag ...
TerminateSetFlag ==
  /\ callerPc = "idle"
  /\ m_optimisationThread # "none"
  /\ m_shouldTerminate' = TRUE
  /\ callerPc' = "terminateNotify"
  /\ UNCHANGED <<cpoSharedVars, m_mutex, cpoThreadVars, callArgs, subReturned, returned,
                 addCount, observed, nonCpoVars>>

\* ... wakes the thread ...
TerminateNotify ==
  /\ callerPc = "terminateNotify"
  /\ m_optimisationThread' = Notified(m_optimisationThread)
  /\ callerPc' = "terminateJoin"
  /\ UNCHANGED <<cpoSharedVars, m_shouldTerminate, m_mutex, graph, callArgs, subReturned,
                 returned, addCount, observed, nonCpoVars>>

\* ... and joins it.
TerminateJoin ==
  /\ callerPc = "terminateJoin"
  /\ m_optimisationThread = "exited"
  /\ callerPc' = "terminated"
  /\ UNCHANGED <<cpoSharedVars, m_shouldTerminate, m_mutex, cpoThreadVars, callArgs,
                 subReturned, returned, addCount, observed, nonCpoVars>>

\* run_pose_graph_optimisation: the head of the loop.
ThreadTop ==
  /\ m_optimisationThread = "top"
  /\ m_optimisationThread' = IF m_shouldTerminate THEN "exited" ELSE "locking"
  /\ UNCHANGED <<cpoSharedVars, m_shouldTerminate, m_mutex, graph, cpoCallVars, observed,
                 nonCpoVars>>

ThreadLock ==
  /\ m_optimisationThread = "locking"
  /\ MutexFree
  /\ m_mutex' = "optimiser"
  /\ m_optimisationThread' = "check"
  /\ UNCHANGED <<cpoSharedVars, m_shouldTerminate, graph, cpoCallVars, observed, nonCpoVars>>

\* Samples were added: builds the pose graph and unlocks.
ThreadBuild ==
  /\ m_optimisationThread = "check"
  /\ m_relativeTransformSamplesChanged
  /\ graph' = BuildGraph(m_relativeTransformSamples, m_sceneIDs)
  /\ m_relativeTransformSamplesChanged' = FALSE
  /\ m_mutex' = "free"
  /\ m_optimisationThread' = "optimise"
  /\ UNCHANGED <<m_relativeTransformSamples, m_sceneIDs, m_estimatedGlobalPoses,
                 m_shouldTerminate, cpoCallVars, observed, nonCpoVars>>

\* No samples were added and the optimiser is to terminate.
ThreadCheckTerminate ==
  /\ m_optimisationThread = "check"
  /\ ~m_relativeTransformSamplesChanged
  /\ m_shouldTerminate
  /\ m_mutex' = "free"
  /\ m_optimisationThread' = "exited"
  /\ UNCHANGED <<cpoSharedVars, m_shouldTerminate, graph, cpoCallVars, observed, nonCpoVars>>

\* Neither: the thread is about to wait.
ThreadCheckWait ==
  /\ m_optimisationThread = "check"
  /\ ~m_relativeTransformSamplesChanged
  /\ ~m_shouldTerminate
  /\ m_optimisationThread' = "enterWait"
  /\ UNCHANGED <<cpoSharedVars, m_shouldTerminate, m_mutex, graph, cpoCallVars, observed,
                 nonCpoVars>>

\* wait: unlocks the mutex and blocks on the condition variable.
ThreadWait ==
  /\ m_optimisationThread = "enterWait"
  /\ m_mutex' = "free"
  /\ m_optimisationThread' = "waiting"
  /\ UNCHANGED <<cpoSharedVars, m_shouldTerminate, graph, cpoCallVars, observed, nonCpoVars>>

\* A woken thread locks the mutex again and looks at its condition again.
ThreadReacquire ==
  /\ m_optimisationThread = "woken"
  /\ MutexFree
  /\ m_mutex' = "optimiser"
  /\ m_optimisationThread' = "check"
  /\ UNCHANGED <<cpoSharedVars, m_shouldTerminate, graph, cpoCallVars, observed, nonCpoVars>>

\* The pose graph is optimised without the mutex.
ThreadOptimise ==
  /\ m_optimisationThread = "optimise"
  /\ m_optimisationThread' = "store"
  /\ UNCHANGED <<cpoSharedVars, m_shouldTerminate, m_mutex, graph, cpoCallVars, observed,
                 nonCpoVars>>

\* The estimated global poses are written under the mutex.
ThreadStore ==
  /\ m_optimisationThread = "store"
  /\ MutexFree
  /\ m_mutex' = "optimiser"
  /\ m_estimatedGlobalPoses' = SolvePoseGraph(graph)
  /\ m_optimisationThread' = "stored"
  /\ UNCHANGED <<m_relativeTransformSamples, m_sceneIDs, m_relativeTransformSamplesChanged,
                 m_shouldTerminate, graph, cpoCallVars, observed, nonCpoVars>>

ThreadRelease ==
  /\ m_optimisationThread = "stored"
  /\ m_mutex' = "free"
  /\ graph' = <<>>
  /\ m_optimisationThread' = "top"
  /\ UNCHANGED <<cpoSharedVars, m_shouldTerminate, cpoCallVars, observed, nonCpoVars>>

\* The accessor calls made from a second calling thread.
Accessors ==
  {"try_get_largest_cluster", "try_get_relative_transform", "try_get_relative_transform_samples"}

QueryPairs == {<<"World", "A">>, <<"A", "World">>, <<"B", "World">>}

Queries ==
  {[f |-> "try_get_estimated_global_pose", sceneI |-> sc, sceneJ |-> ""] : sc \in Scenes}
    \cup {[f |-> f, sceneI |-> q[1], sceneJ |-> q[2]] : f \in Accessors, q \in QueryPairs}

\* An accessor call and what it returns; each locks the mutex and calls its
\* _sub.
Answer(q) ==
  CASE q.f = "try_get_estimated_global_pose" ->
         [called |-> TRUE, query |-> q,
          pose |-> try_get_estimated_global_pose(m_estimatedGlobalPoses, q.sceneI)]
    [] q.f = "try_get_largest_cluster" ->
         [called |-> TRUE, query |-> q,
          cluster |-> try_get_largest_cluster_sub(m_relativeTransformSamples, q.sceneI,
                                                  q.sceneJ)]
    [] q.f = "try_get_relative_transform" ->
         [called |-> TRUE, query |-> q,
          transform |-> try_get_relative_transform_sub(m_relativeTransformSamples, q.sceneI,
                                                       q.sceneJ)]
    [] q.f = "try_get_relative_transform_samples" ->
         [called |-> TRUE, query |-> q,
          samples |-> try_get_relative_transform_samples(m_relativeTransformSamples,
                                                         q.sceneI, q.sceneJ)]

\* The optional the accessor call in progress returns.
ObservedResult ==
  CASE observed.query.f = "try_get_estimated_global_pose" -> observed.pose
    [] observed.query.f = "try_get_largest_cluster" -> observed.cluster
    [] observed.query.f = "try_get_relative_transform" -> observed.transform
    [] observed.query.f = "try_get_relative_transform_samples" -> observed.samples

AccessorCall ==
  /\ observed = NoCall
  /\ MutexFree
  /\ m_mutex' = "accessor"
  /\ \E q \in Queries : observed' = Answer(q)
  /\ UNCHANGED <<cpoSharedVars, m_shouldTerminate, cpoThreadVars, cpoCallVars, nonCpoVars>>

AccessorReturn ==
  /\ observed # NoCall
  /\ m_mutex' = "free"
  /\ observed' = NoCall
  /\ UNCHANGED <<cpoSharedVars, m_shouldTerminate, cpoThreadVars, cpoCallVars, nonCpoVars>>

vars == <<imageVars, hypVars, relocVars, energyVars, tunables, libVars>>

SpecEnergy == EnergyInit /\ [][EnergyNext]_vars


SpecHyp == HypInit /\ [][HypNext]_vars

Spec == Init /\ [][Next]_vars

SpecRansac == RansacInit /\ [][RansacNext]_vars

\* make_greyscale_image on every buffer of up to MaxPixels samples.
GreyInit ==
  /\ \E w, h \in 1 .. MaxPixels :
       /\ w * h <= MaxPixels
       /\ width = w
       /\ height = h
       /\ inputData \in [1 .. w * h -> GreySamples]
  /\ order \in {"ROW_MAJOR", "COL_MAJOR"}
  /\ scaleFunc \in GreyFuncs
  /\ outputData = <<>>
  /\ readLog = <<>>
  /\ cursor = [i |-> 0, x |-> 0, y |-> 0]
  /\ greyPc = "loop"
  /\ RangeIdle
  /\ UtilIdle
  /\ CoreIdle

GreyNext == GreyRowStep \/ GreyColStep \/ GreyReturn

SpecGrey == GreyInit /\ [][GreyNext]_vars

\* ScaleDataToRange on every buffer of up to MaxBuffer whole samples.
RangeInit ==
  /\ \E n \in 1 .. MaxBuffer :
       \E data \in [1 .. n -> 0 .. MaxSample] :
         inputData = [i \in 1 .. n |-> Float(data[i])]
  /\ outputRange \in OutputRanges
  /\ functor = NoFunctor
  /\ mapped = <<>>
  /\ rangePc = "construct"
  /\ GreyIdle
  /\ UtilIdle
  /\ CoreIdle

RangeNext == RangeConstruct \/ RangeApply

SpecRange == RangeInit /\ [][RangeNext]_vars

\* tile_image_patches on up to MaxImages images, on every grid and tile size.
TileInit ==
  /\ \E n \in 0 .. MaxImages, c, r \in 1 .. MaxGrid, w, h \in 1 .. MaxPatch,
        pad \in 0 .. MaxPadding :
       tileArgs = [images |-> [k \in 1 .. n |-> k], tileCols |-> c, tileRows |-> r,
                   patchWidth |-> w, patchHeight |-> h, paddingSize |-> pad]
  /\ tiled = <<>>
  /\ tileK = 0
  /\ tilePc = "start"
  /\ OcvIdle
  /\ MarkIdle
  /\ CpoIdle
  /\ CoreIdle

TileNext == TileAllocate \/ TilePlace \/ TileReturn

SpecTile == TileInit /\ [][TileNext]_vars

\* mark_voxels on up to MaxMarked distinct voxels of a scene.
MarkInit ==
  /\ \E k \in 0 .. MaxMarked :
       /\ voxelLocationsMB \in DistinctSeqs(Voxels, k)
       /\ voxelLabelsMB \in [1 .. k -> SuppliedLabels]
  /\ \E l \in SceneLabels : scene = [v \in Voxels |-> l]
  /\ sceneBefore = scene
  /\ marked = {}
  /\ markPc = "kernel"
  /\ OcvIdle
  /\ TileIdle
  /\ CpoIdle
  /\ CoreIdle

MarkNext == MarkVoxel \/ MarkReturn

SpecMark == MarkInit /\ [][MarkNext]_vars

\* A collaborative pose optimiser, its calling threads and its own thread.
CpoInit ==
  /\ CpoConstructed
  /\ OcvIdle
  /\ TileIdle
  /\ MarkIdle
  /\ CoreIdle

CallerStep ==
  \/ AddInverse
  \/ AddSignal
  \/ TerminateNotify
  \/ TerminateJoin

ThreadStep ==
  \/ ThreadTop
  \/ ThreadLock
  \/ ThreadBuild
  \/ ThreadCheckTerminate
  \/ ThreadCheckWait
  \/ ThreadWait
  \/ ThreadReacquire
  \/ ThreadOptimise
  \/ ThreadStore
  \/ ThreadRelease

CpoNext ==
  \/ Start
  \/ AddBegin
  \/ TerminateSetFlag
  \/ CallerStep
  \/ ThreadStep
  \/ AccessorCall
  \/ AccessorReturn

SpecCpo == CpoInit /\ [][CpoNext]_vars

\* The threads are scheduled fairly: a call that was begun goes on, the
\* optimisation thread runs and gets the mutex when it is free again and
\* again, and an accessor returns.
SpecCpoFair ==
  /\ SpecCpo
  /\ WF_vars(CallerStep)
  /\ SF_vars(ThreadStep)
  /\ WF_vars(AccessorReturn)

\* ------------------------------------------------------------ properties
FullOrder ==
  <<"ComputeFeature", "evaluate_forest", "get_predictions", "estimate_pose", "SetInvM",
    "UpdateVisibleList(reset)", "prepare_for_tracking(TRACK_VOXELS)", "Track">>

IsPrefix(a, b) == Len(a) <= Len(b) /\ SubSeq(b, 1, Len(a)) = a

ImagesUntouched ==
  DOMAIN m_featureImage = {} /\ DOMAIN m_leafImage = {} /\ DOMAIN m_predictionsImage = {}

AfterEstimatePcs ==
  {"SetInvM", "UpdateVisibleList", "prepare_for_tracking", "Track", "read_result",
   "returned"}

\* C1: a call with a tracking-failed result and fewer valid depths than
\* max(nbPointsForKabschBootstrap, batchSizeRansac) returns tracking-failed
\* and calls nothing: no feature, leaf or prediction image is computed, no
\* candidate is generated, and the tracking state stays as it was.
C1_GuardReturnsUnchanged ==
  (/\ trackingResult = "TRACKING_FAILED"
   /\ validDepths < Max(m_nbPointsForKabschBoostrap, m_batchSizeRansac))
  => /\ pc \in {"entry", "returned"}
     /\ callLog = <<>>
     /\ trackingState = [pose_d |-> LostPose, trackerResult |-> "TRACKING_FAILED"]
     /\ ImagesUntouched
     /\ candidates = <<>>
     /\ (pc = "returned" => result = "TRACKING_FAILED")

C1_Witness ==
  /\ pc = "returned"
  /\ trackingResult = "TRACKING_FAILED"
  /\ validDepths = Max(m_nbPointsForKabschBoostrap, m_batchSizeRansac) - 1
  /\ result = "TRACKING_FAILED"

\* C2: past the guard the calls come in the order feature extraction, forest
\* evaluation, prediction building, estimate_pose, and with a candidate
\* SetInvM, UpdateVisibleList with reset, prepare_for_tracking(TRACK_VOXELS),
\* Track; the pose installed is the candidate's, and the value returned is
\* the tracker result read after Track.
C2_RelocalisationOrder ==
  /\ IsPrefix(callLog, FullOrder)
  /\ (Len(callLog) >= 5 =>
        /\ Len(candidates) = 1
        /\ trackingState.pose_d = candidates[1].cameraPose)
  /\ (pc = "returned" /\ Len(callLog) >= 4 /\ candidates # <<>> =>
        /\ callLog = FullOrder
        /\ result = trackingState.trackerResult)

C2_Witness ==
  /\ pc = "returned"
  /\ callLog = FullOrder
  /\ result = "TRACKING_GOOD"
  /\ trackingState.pose_d = candidates[1].cameraPose

\* C3: when estimate_pose yields no candidate the call returns
\* tracking-failed, the tracking state is as it was, and nothing is called
\* after estimate_pose: no SetInvM, no UpdateVisibleList, no Track.
C3_NoCandidateLeavesFailed ==
  (candidates = <<>> /\ Len(callLog) >= 4 /\ pc \in AfterEstimatePcs)
  => /\ pc = "returned"
     /\ result = "TRACKING_FAILED"
     /\ trackingState = [pose_d |-> LostPose, trackerResult |-> "TRACKING_FAILED"]
     /\ callLog = SubSeq(FullOrder, 1, 4)

C3_Witness ==
  /\ pc = "returned"
  /\ Len(callLog) = 4
  /\ candidates = <<>>
  /\ nbGenerated = 0
  /\ result = "TRACKING_FAILED"

\* C4: every inlier of every candidate, in the vector or still in a worker's
\* hands, names a pixel whose feature is valid (w >= 0) and whose prediction
\* has at least one mode.
InliersValid(c) ==
  \A s \in 1 .. Len(c.inliers) :
    /\ c.inliers[s][1] \in Pixels
    /\ m_featureImage[c.inliers[s][1]].w >= 0
    /\ m_predictionsImage[c.inliers[s][1]].nbModes >= 1

C4_InliersReferenceValidPixels ==
  /\ \A p \in 1 .. Len(candidates) : InliersValid(candidates[p])
  /\ \A w \in Workers : InliersValid(wcand[w])

C4_Witness ==
  /\ pc = "loop_erase"
  /\ nbGenerated > m_trimKinitAfterFirstEnergyComputation
  /\ iteration >= 1
  /\ Len(candidates[1].inliers) > m_nbPointsForKabschBoostrap
  /\ \E i \in Pixels : m_featureImage[i].w < 0 \/ m_predictionsImage[i].nbModes = 0

\* C5: no hypothesis returned by hypothesize_pose has two chosen
\* (pixel, mode) pairs whose world positions are closer than 0.3 m.
ChosenWorld(s) ==
  m_predictionsImage[hypOut.res.inliers[s][1]].modes[hypOut.res.inliers[s][2] + 1].position

C5_MinDistanceHolds ==
  (hypPc = "done" /\ hypOut.ok)
  => /\ Len(hypOut.res.inliers) = m_nbPointsForKabschBoostrap
     /\ \A a, b \in 1 .. Len(hypOut.res.inliers) :
          a # b => SqLength(VecSub(ChosenWorld(a), ChosenWorld(b))) >= 300 * 300

\* A hypothesis was returned although the image holds a mode closer than
\* 0.3 m to a chosen one.
C5_Witness ==
  /\ hypPc = "done"
  /\ hypOut.ok
  /\ \E i \in Pixels :
       /\ m_featureImage[i].w >= 0
       /\ \E m \in 1 .. m_predictionsImage[i].nbModes :
            /\ \A s \in 1 .. 3 : hypOut.res.inliers[s] # <<i, m - 1>>
            /\ \E s \in 1 .. 3 :
                 SqLength(VecSub(ChosenWorld(s),
                                 m_predictionsImage[i].modes[m].position)) < 300 * 300

\* C6: every round of the main loop halves the candidates (rounding down), so
\* after r rounds at most min(generated, trim size) / 2^r are left, which
\* bounds the rounds (6 for a trim size of 64); and the loop is left with
\* exactly one candidate when any hypothesis was generated, with none only
\* when none was.
C6_LoopShrinksToOne ==
  /\ (pc = "loop_test" =>
        /\ Len(candidates) * Pow2(iteration)
             <= Min(nbGenerated, m_trimKinitAfterFirstEnergyComputation)
        /\ (nbGenerated >= 1 => Len(candidates) >= 1))
  /\ (pc \in {"loop_update", "loop_energies", "loop_erase"} =>
        /\ Len(candidates) > 1
        /\ Len(candidates) * Pow2(iteration - 1)
             <= Min(nbGenerated, m_trimKinitAfterFirstEnergyComputation))
  /\ (pc \in AfterEstimatePcs /\ Len(callLog) >= 4 =>
        Len(candidates) = IF nbGenerated >= 1 THEN 1 ELSE 0)

C6_Witness ==
  /\ pc = "SetInvM"
  /\ nbGenerated > m_trimKinitAfterFirstEnergyComputation
  /\ iteration >= 1
  /\ Len(candidates) = 1

\* C7: while the workers run and when they are done, the result vector holds
\* exactly one entry for every loop index whose hypothesis was kept and not
\* yet a worker's to insert: none is lost, none comes twice, each carries
\* its loop index, and there are at most kInitRansac of them.
PendingWorkers == {w \in Workers : wpc[w] \in {"critical", "emplace"}}

C7_NoInsertionLost ==
  pc \in {"generate", "trim_test"}
  => /\ Len(candidates) + Cardinality(PendingWorkers) = Cardinality(accepted)
     /\ {candidates[p].cameraId : p \in 1 .. Len(candidates)}
          \cup {wcand[w].cameraId : w \in PendingWorkers} = accepted
     /\ accepted \subseteq LoopIndices
     /\ Len(candidates) <= m_kInitRansac
     /\ (pc = "trim_test" => PendingWorkers = {})

C7_Witness ==
  /\ pc = "trim_test"
  /\ Len(candidates) = m_kInitRansac
  /\ candidates[1].cameraId > candidates[2].cameraId

\* C8: the trim keeps exactly the trim size of candidates: those of lowest
\* energy, as computed on their bootstrap inliers and the sampled batch, in
\* ascending order of energy, each with its inliers cut back to the bootstrap
\* ones; with no more candidates than the trim size nothing is sampled and
\* the candidates stay as they are.
C8_TrimKeepsBest ==
  [][/\ (pc = "trim_erase" =>
           LET keptIds == {candidates'[p].cameraId : p \in 1 .. Len(candidates')}
           IN /\ Len(candidates) = nbGenerated
              /\ Len(candidates') = m_trimKinitAfterFirstEnergyComputation
              /\ \A p \in 1 .. Len(candidates') :
                   \E q \in 1 .. Len(candidates) :
                     /\ candidates[q].cameraId = candidates'[p].cameraId
                     /\ candidates'[p] =
                          [candidates[q] EXCEPT
                             !.inliers = SubSeq(@, 1, m_nbPointsForKabschBoostrap)]
                     /\ Len(candidates[q].inliers)
                          = m_nbPointsForKabschBoostrap + Len(sampledPixelIdx)
                     /\ candidates[q].energy
                          = compute_pose_energy(candidates[q].cameraPose,
                                                candidates[q].inliers).value
              /\ \A p, p2 \in 1 .. Len(candidates') :
                   p < p2 => candidates'[p].energy <= candidates'[p2].energy
              /\ \A q \in 1 .. Len(candidates) :
                   candidates[q].cameraId \notin keptIds =>
                     \A p \in 1 .. Len(candidates') :
                       candidates'[p].energy <= candidates[q].energy)
     /\ (pc = "trim_test" /\ Len(candidates) <= m_trimKinitAfterFirstEnergyComputation =>
           /\ pc' = "loop_init"
           /\ candidates' = candidates
           /\ sampledPixelIdx' = sampledPixelIdx
           /\ random_engine' = random_engine)]_vars

\* The trim ran on candidates of different energies.
C8_Witness ==
  /\ pc = "loop_init"
  /\ nbGenerated > m_trimKinitAfterFirstEnergyComputation
  /\ Len(candidates) = m_trimKinitAfterFirstEnergyComputation
  /\ candidates[1].energy < candidates[Len(candidates)].energy
  /\ Len(sampledPixelIdx) = m_batchSizeRansac

\* C9: an inlier whose best-mode query gives a negative index, or a mode
\* without inliers, makes compute_pose_energy throw: energies are only
\* returned when no inlier of any candidate is such; and once it has thrown
\* the call is over with no pose installed, nothing called and nothing
\* returned.
C9_ThrowInstallsNoPose ==
  /\ (thrown # "no" =>
        /\ pc \in ThrowOutcomes
        /\ trackingState = [pose_d |-> LostPose, trackerResult |-> "TRACKING_FAILED"]
        /\ callLog = SubSeq(FullOrder, 1, 4)
        /\ result = "pending")
  /\ (pc \in ThrowOutcomes => thrown # "no")
  /\ (pc \in {"trim_erase", "loop_erase"} =>
        \A p \in 1 .. Len(candidates) :
          \A s \in 1 .. Len(candidates[p].inliers) :
            LET q == InlierQuery(candidates[p].cameraPose, candidates[p].inliers[s])
            IN q.argmax >= 0 /\ q.nbInliers > 0)

C9_Witness ==
  /\ thrown = "mode has no inliers"
  /\ pc = "propagated"
  /\ iteration >= 1

NormalisedOf(q) == (q.energy \div q.nbModes) \div q.nbInliers

GreyExpected(v) == IF v.neg THEN 0 ELSE Min(Truncated(v), 255)

\* The index of the sample shown at (x, y).
GreySource(x, y) == IF order = "ROW_MAJOR" THEN y * width + x ELSE x * height + y

\* C11: make_greyscale_image gives height rows of width bytes; the byte at
\* (x, y) is the clamped f(input[y*W+x]) in row-major and f(input[x*H+y]) in
\* column-major order, saturated to [0, 255] before it is truncated; no
\* index is read twice and, at the end, every index of 0..W*H-1 was read
\* exactly once.
C11_GreyscalePixels ==
  /\ Len(readLog) = Len(outputData)
  /\ \A p, q \in 1 .. Len(readLog) : p # q => readLog[p] # readLog[q]
  /\ \A p \in 1 .. Len(readLog) : readLog[p] \in 0 .. (width * height - 1)
  /\ (greyPc = "returned" =>
        /\ Len(outputData) = width * height
        /\ \A x \in 0 .. (width - 1), y \in 0 .. (height - 1) :
             outputData[y * width + x + 1]
               = GreyExpected(ApplyScale(scaleFunc, inputData[GreySource(x, y) + 1])))

\* A 2 x 2 column-major image of a buffer that is not symmetric, with a byte
\* saturated at 255 and one at 0.
C11_Witness ==
  /\ greyPc = "returned"
  /\ order = "COL_MAJOR"
  /\ width = 2
  /\ height = 2
  /\ scaleFunc.kind = "ScaleByFactor"
  /\ inputData[2] = Halves(-1)
  /\ inputData[3] = Halves(511)
  /\ outputData[2] = 255
  /\ outputData[3] = 0

RangeMin == min_element(inputData, Len(inputData))

RangeMax == max_element(inputData, Len(inputData))

\* C12 as claimed, on the buffers whose samples are not all the same: the
\* minimum is mapped to outMin and the maximum to outMax, exactly.
C12_RangeEndsExact ==
  (rangePc = "done" /\ RangeMin # RangeMax) =>
    \A i \in 1 .. Len(inputData) :
      /\ (inputData[i] = RangeMin => mapped[i] = Float(outputRange.min))
      /\ (inputData[i] = RangeMax => mapped[i] = Float(outputRange.max))

\* 2^-10
RangeTolerance == Canon(FALSE, 1, -10)

FAbs(a) == [a EXCEPT !.neg = FALSE]

\* C12, amended: on a buffer whose samples are not all the same the minimum
\* is mapped to outMin exactly, the maximum to outMax up to the rounding of
\* single precision (not always exactly), and no sample is mapped below a
\* smaller one; [1, 5, 10] mapped to [0, 255] gives 0 and 255 exactly; on a
\* buffer whose samples are all the same the scaling factor is a division
\* by zero and no sample is mapped to a number.
C12_RangeEndsRounded ==
  rangePc = "done" =>
    /\ (RangeMin # RangeMax =>
          \A i \in 1 .. Len(inputData) :
            /\ mapped[i].kind = "num"
            /\ (inputData[i] = RangeMin => mapped[i] = Float(outputRange.min))
            /\ (inputData[i] = RangeMax =>
                  FLess(FAbs(FSub(mapped[i], Float(outputRange.max))), RangeTolerance))
            /\ \A j \in 1 .. Len(inputData) :
                 FLess(inputData[i], inputData[j]) => ~FLess(mapped[j], mapped[i]))
    /\ (inputData = <<Float(1), Float(5), Float(10)>> /\ outputRange = [min |-> 0, max |-> 255]
          => mapped[1] = Float(0) /\ mapped[3] = Float(255))
    /\ (RangeMin = RangeMax =>
          /\ functor.m_scalingFactor.kind # "num"
          /\ \A i \in 1 .. Len(inputData) : mapped[i] = NaN)

C12_Witness ==
  /\ rangePc = "done"
  /\ inputData = <<Float(1), Float(5), Float(10)>>
  /\ outputRange = [min |-> 0, max |-> 255]
  /\ mapped[1] = Float(0)
  /\ mapped[3] = Float(255)
  /\ FLess(Float(113), mapped[2])
  /\ FLess(mapped[2], Float(114))

\* The images seen in the tiled image.
ImagesShown == {tiled[p] : p \in DOMAIN tiled} \ {Black}

\* C13: tile_image_patches returns an image of exactly
\* tileCols*(patchWidth+2*paddingSize) by tileRows*(patchHeight+2*paddingSize)
\* pixels; image number k < tileCols*tileRows fills the patch of the cell at
\* row k div tileCols and column k mod tileCols, behind a black border of
\* paddingSize; the images from number tileCols*tileRows on do not appear.
C13_TiledImage ==
  tilePc = "returned" =>
    LET a == tileArgs
        W == a.tileCols * (a.patchWidth + 2 * a.paddingSize)
        H == a.tileRows * (a.patchHeight + 2 * a.paddingSize)
        shown == {k \in 0 .. (Len(a.images) - 1) : k < a.tileCols * a.tileRows}
        InPatch(p, k) ==
          /\ p[1] - (k % a.tileCols) * (a.patchWidth + 2 * a.paddingSize) - a.paddingSize
               \in 0 .. (a.patchWidth - 1)
          /\ p[2] - (k \div a.tileCols) * (a.patchHeight + 2 * a.paddingSize) - a.paddingSize
               \in 0 .. (a.patchHeight - 1)
    IN /\ DOMAIN tiled = (0 .. (W - 1)) \X (0 .. (H - 1))
       /\ \A p \in DOMAIN tiled :
            /\ \A k \in shown : InPatch(p, k) => tiled[p] = a.images[k + 1]
            /\ (\A k \in shown : ~InPatch(p, k)) => tiled[p] = Black
       /\ ImagesShown = {a.images[k + 1] : k \in shown}

\* Five images on a grid of 2 by 2 with patches of 2 by 1 and a border of 2:
\* a 12 by 10 image, the third image in the second row, the fifth nowhere.
C13_Witness ==
  /\ tilePc = "returned"
  /\ Len(tileArgs.images) = 5
  /\ tileArgs.tileCols = 2
  /\ tileArgs.tileRows = 2
  /\ tileArgs.patchWidth = 2
  /\ tileArgs.patchHeight = 1
  /\ tileArgs.paddingSize = 2
  /\ DOMAIN tiled = (0 .. 11) \X (0 .. 9)
  /\ tiled[<<2, 7>>] = 3
  /\ tiled[<<8, 2>>] = 2
  /\ tiled[<<1, 7>>] = Black
  /\ 5 \notin ImagesShown

\* The voxels listed in the call.
ListedVoxels == {voxelLocationsMB[i] : i \in 1 .. Len(voxelLocationsMB)}

\* C14: for K pairwise distinct voxel coordinates and K labels, after
\* mark_voxels every listed voxel holds exactly its label and every other
\* voxel the label it had before, whatever the order of the scatter; while
\* the scatter runs the processed entries hold their labels and all other
\* voxels are as before.
C14_MarkedExactly ==
  /\ \A i \in marked : scene[voxelLocationsMB[i]] = voxelLabelsMB[i]
  /\ \A v \in DOMAIN scene :
       (\A i \in marked : voxelLocationsMB[i] # v) => scene[v] = sceneBefore[v]
  /\ (markPc = "returned" =>
        /\ \A i \in 1 .. Len(voxelLocationsMB) : scene[voxelLocationsMB[i]] = voxelLabelsMB[i]
        /\ \A v \in DOMAIN scene \ ListedVoxels : scene[v] = sceneBefore[v])

\* Three voxels marked with the labels 1, 2, 1 in a scene of four voxels
\* labelled 255: the fourth is still 255.
C14_Witness ==
  /\ markPc = "returned"
  /\ voxelLocationsMB = << <<1, 0, 0>>, <<0, 0, 0>>, <<1, 1, 0>> >>
  /\ voxelLabelsMB = <<1, 2, 1>>
  /\ scene[<<1, 0, 0>>] = 1
  /\ scene[<<0, 0, 0>>] = 2
  /\ scene[<<1, 1, 0>>] = 1
  /\ scene[<<0, 1, 0>>] = 255
  /\ sceneBefore[<<0, 0, 0>>] = 255

\* The number of samples equal to v stored for a scene pair, and of all.
CountOf(q, v) ==
  SumOver([k \in 1 .. Len(m_relativeTransformSamples[q]) |->
             Cardinality({n \in 1 .. Len(m_relativeTransformSamples[q][k]) :
                            m_relativeTransformSamples[q][k][n] = v})],
          1 .. Len(m_relativeTransformSamples[q]))

SampleCount(q) ==
  SumOver([k \in 1 .. Len(m_relativeTransformSamples[q]) |->
             Len(m_relativeTransformSamples[q][k])],
          1 .. Len(m_relativeTransformSamples[q]))

Reverse(q) == <<q[2], q[1]>>

\* The number of calls made that put v into the samples of a scene pair.
CallsGiving(q, v) ==
  SumOver([a \in AddInputs |->
             IF \/ <<a.sceneI, a.sceneJ>> = q /\ a.sample = v
                \/ <<a.sceneJ, a.sceneI>> = q /\ a.sample = 0 - v
             THEN addCount[a] ELSE 0],
          AddInputs)

SampleValues == {a.sample : a \in AddInputs} \cup {0 - a.sample : a \in AddInputs}

InAdd == callerPc \in {"addInverse", "addSignal"}

\* C15: after any sequence of add_relative_transform_sample calls every scene
\* pair (i,j) holds as many samples as (j,i); each call (i,j,T) has put T
\* into (i,j) and the inverse of T into (j,i), and both scenes are known.
C15_SamplesPaired ==
  ~InAdd =>
    /\ \A q \in ScenePairs :
         /\ SampleCount(q) = SampleCount(Reverse(q))
         /\ \A v \in SampleValues :
              /\ CountOf(q, v) = CallsGiving(q, v)
              /\ CountOf(q, v) = CountOf(Reverse(q), 0 - v)
    /\ m_sceneIDs = UNION {{a.sceneI, a.sceneJ} : a \in {b \in AddInputs : addCount[b] > 0}}

\* One sample of World-A and one of B-A were added.
C15_Witness ==
  /\ callerPc = "idle"
  /\ addCount[[sceneI |-> "World", sceneJ |-> "A", sample |-> 1]] = 1
  /\ addCount[[sceneI |-> "B", sceneJ |-> "A", sample |-> -1]] = 1
  /\ SumOver(addCount, AddInputs) = 2
  /\ m_relativeTransformSamples[<<"World", "A">>] = << <<1>> >>
  /\ m_relativeTransformSamples[<<"A", "World">>] = << <<-1>> >>
  /\ m_relativeTransformSamples[<<"B", "A">>] = << <<-1>> >>
  /\ m_relativeTransformSamples[<<"A", "B">>] = << <<1>> >>
  /\ m_sceneIDs = {"World", "A", "B"}

\* An add call has returned; callArgs are its arguments.
AddReturned == callerPc = "idle" /\ returned.type # "none"

\* C16 as claimed: add_relative_transform_sample returns to its caller
\* whether the cluster that received the sample has reached the confidence
\* threshold.
C16_ReturnsConfidence ==
  AddReturned =>
    /\ returned.type = "bool"
    /\ returned.value
         = (CountOf(<<callArgs.sceneI, callArgs.sceneJ>>, callArgs.sample)
              >= confidence_threshold)

\* C16, amended: add_relative_transform_sample returns nothing; it is the
\* private add_relative_transform_sample_sub that returns whether the
\* cluster that received the sample is now confident: false on every call
\* before the cluster reaches the threshold, true on the call that reaches
\* it, for the sample and for its inverse.
C16_SubReturnsConfidence ==
  AddReturned =>
    /\ returned = [type |-> "void"]
    /\ Len(subReturned) = 2
    /\ subReturned[1]
         = (CountOf(<<callArgs.sceneI, callArgs.sceneJ>>, callArgs.sample)
              >= confidence_threshold)
    /\ subReturned[2]
         = (CountOf(<<callArgs.sceneJ, callArgs.sceneI>>, 0 - callArgs.sample)
              >= confidence_threshold)

\* The call that brings the cluster of World-A to the threshold, after a
\* sample that was not close to it.
C16_Witness ==
  /\ AddReturned
  /\ callArgs = [sceneI |-> "World", sceneJ |-> "A", sample |-> 1]
  /\ m_relativeTransformSamples[<<"World", "A">>] = << <<2>>, <<1, 1>> >>
  /\ subReturned = <<TRUE, TRUE>>
  /\ returned = [type |-> "void"]

\* The add calls that have returned, and the scenes they named.
CallsMade == {a \in AddInputs : addCount[a] > 0}

ScenesAdded == UNION {{a.sceneI, a.sceneJ} : a \in CallsMade}

PairsAdded == UNION {{<<a.sceneI, a.sceneJ>>, <<a.sceneJ, a.sceneI>>} : a \in CallsMade}

ConfidentPair(q) ==
  /\ m_relativeTransformSamples[q] # <<>>
  /\ Len(LargestOf(m_relativeTransformSamples[q])) >= confidence_threshold

\* The scenes linked to the primary scene by a chain of confident clusters.
RECURSIVE ChainedFrom(_)
ChainedFrom(S) ==
  IF \A q \in ScenePairs : ~(q[1] \in S /\ q[2] \notin S /\ ConfidentPair(q)) THEN S
  ELSE ChainedFrom(S \cup {q[2] : q \in {e \in ScenePairs : e[1] \in S /\ ConfidentPair(e)}})

ChainedScenes == ChainedFrom({primarySceneID}) \ {primarySceneID}

InCritical ==
  (IF InAdd THEN {"caller"} ELSE {})
    \cup (IF m_optimisationThread \in {"check", "enterWait", "stored"} THEN {"optimiser"} ELSE {})
    \cup (IF observed # NoCall THEN {"accessor"} ELSE {})

MutexDiscipline ==
  /\ Cardinality(InCritical) <= 1
  /\ InCritical = (IF m_mutex = "free" THEN {} ELSE {m_mutex})
  /\ (observed # NoCall => \A q \in ScenePairs : SampleCount(q) = SampleCount(Reverse(q)))

\* C20: the shared maps and the samples-changed flag are read and written
\* only by the thread that holds the mutex, at most one thread is inside
\* a guarded section, and no accessor sees a scene pair hold a sample
\* without the inverse in the reverse pair.
C20_MutexGuardsMaps ==
  /\ []MutexDiscipline
  /\ [][cpoSharedVars' # cpoSharedVars => (m_mutex # "free" \/ m_mutex' # "free")]_vars

\* An accessor holds the mutex and sees both directions of World-A while an
\* add call waits outside and the thread wants the mutex too.
C20_Witness ==
  /\ observed # NoCall
  /\ m_mutex = "accessor"
  /\ observed.query.f = "try_get_relative_transform_samples"
  /\ ObservedResult = Some(<< <<1>> >>)
  /\ m_relativeTransformSamples[<<"A", "World">>] = << <<-1>> >>
  /\ m_optimisationThread = "locking"
  /\ callerPc = "idle"

\* C21 as claimed: hypothesize_pose reports failure only after all of its
\* outer attempts failed: when it returns false without three chosen pairs,
\* it has made maxIterationsOuter outer attempts.
C21_FailureAfterAllAttempts ==
  (hypPc = "done" /\ ~hypOut.ok /\ Len(hypOut.selected) # m_nbPointsForKabschBoostrap)
  => hypOut.iterationsOuter = maxIterationsOuter

\* The absolute difference of two colours is within the tolerance on every
\* channel.
WithinTolerance(featureColour, modeColour) ==
  \A c \in 1 .. 3 : Abs(featureColour[c] - modeColour[c]) <= colourTolerance

\* C22 as claimed: the colour check accepts a (pixel, mode) pair exactly when
\* the observed colour and the colour of the mode differ by at most 30 in
\* absolute value on each of the three channels, whichever is the larger.
C22_ColourCheckAbsolute ==
  hypPc = "done"
  => \A i \in Pixels :
       \A m \in 1 .. m_predictionsImage[i].nbModes :
         ConsistentColour(m_featureImage[i].colour, m_predictionsImage[i].modes[m].colour)
         <=> WithinTolerance(m_featureImage[i].colour,
                             m_predictionsImage[i].modes[m].colour)

\* ------------------------------------------------------------ the main loop
\* The places of the main loop of estimate_pose (lines 788-812).
LoopPcs == {"loop_test", "loop_update", "loop_energies", "loop_erase"}

SampledIdx(s) == LinearIdx(sampledPixelIdx[s][1], sampledPixelIdx[s][2])

\* The pixels appended to an inlier list: its entries with no mode assigned.
Appended(inliers) == SelectSeq(inliers, LAMBDA e : e[2] = -1)

NoRepeat(q) == \A a, b \in 1 .. Len(q) : a # b => q[a] # q[b]

\* C23: in the main loop no pixel is sampled twice: a round's batch holds at
\* most batchSizeRansac pixels, each unmarked in the mask when chosen and
\* marked afterwards; marks stay; the mask of the first round is all
\* unmarked, whether or not the trim pass sampled before; so the pixels
\* appended to a candidate by all the rounds so far are pairwise distinct.
C23_NoPixelSampledTwice ==
  [][/\ (pc = "loop_test" /\ pc' = "loop_update")
          => /\ ~maskSampledPixels.empty
             /\ iteration = 0 => maskSampledPixels.marked = {}
             /\ Len(sampledPixelIdx') <= m_batchSizeRansac
             /\ NoRepeat(sampledPixelIdx')
             /\ \A s \in 1 .. Len(sampledPixelIdx') :
                  LET idx == LinearIdx(sampledPixelIdx'[s][1], sampledPixelIdx'[s][2])
                  IN /\ idx \notin maskSampledPixels.marked
                     /\ idx \in maskSampledPixels'.marked
     /\ maskSampledPixels.marked \subseteq maskSampledPixels'.marked
     /\ pc' \in LoopPcs
          => \A p \in 1 .. Len(candidates') : NoRepeat(Appended(candidates'[p].inliers))
    ]_vars

\* The trim pass sampled pixels, and the second round of the main loop has
\* its batch while pixels of the first round are marked.
C23_Witness ==
  /\ pc = "loop_update"
  /\ iteration = 2
  /\ nbSamplesPerCamera > 0
  /\ sampledPixelIdx # <<>>
  /\ Cardinality(maskSampledPixels.marked) > Len(sampledPixelIdx)

\* The batch of the round at hand came short of the batch size.
ShortBatch == Len(sampledPixelIdx) < m_batchSizeRansac

\* The entries a batch adds to an inlier list.
BatchEntries == [s \in 1 .. Len(sampledPixelIdx) |-> <<SampledIdx(s), -1>>]

\* C24: a batch of the main loop that comes short of the batch size, an empty
\* one included, raises no error and the round goes on with it: its pixels
\* are appended to every candidate, the energies are computed anew from the
\* lists so extended, and the half of higher energy is discarded.
C24_ShortfallProceeds ==
  [][/\ (pc = "loop_test" /\ pc' = "loop_update" /\ ShortBatch')
          => thrown' = "no" /\ candidates' = candidates
     /\ (pc = "loop_update" /\ ShortBatch /\ ~tunables.m_poseUpdate)
          => /\ pc' = "loop_energies"
             /\ thrown' = "no"
             /\ Len(candidates') = Len(candidates)
             /\ \A p \in 1 .. Len(candidates) :
                  candidates'[p].inliers = candidates[p].inliers \o BatchEntries
     /\ (pc = "loop_energies" /\ ShortBatch /\ thrown' = "no")
          => pc' = "loop_erase"
     /\ (pc = "loop_erase" /\ ShortBatch)
          => /\ pc' = "loop_test"
             /\ \A p \in 1 .. Len(candidates) :
                  candidates[p].energy
                    = compute_pose_energy(candidates[p].cameraPose,
                                          candidates[p].inliers).value
             /\ Len(candidates') = Len(candidates) \div 2
             /\ \A p \in 1 .. Len(candidates) :
                  IF p <= Len(candidates') THEN candidates'[p] = candidates[p]
                  ELSE \A q \in 1 .. Len(candidates') :
                         candidates'[q].energy <= candidates[p].energy
    ]_vars

\* The second round found one pixel only, and went on to halve the candidates
\* with it appended to the survivor.
C24_Witness ==
  /\ pc = "loop_test"
  /\ iteration = 2
  /\ ~tunables.m_poseUpdate
  /\ Len(sampledPixelIdx) = 1
  /\ Len(candidates) = 1
  /\ candidates[1].inliers[Len(candidates[1].inliers)] = <<SampledIdx(1), -1>>

\* C25: a round of the main loop starts with n > 1 candidates and keeps all
\* n up to its sort; the energies are those computed in this round from the
\* extended inlier lists; floor(n/2) candidates survive the round, none of
\* them with a higher energy than a discarded one; and the candidate whose
\* pose is installed once the loop is left is the first, i.e. the one of
\* lowest energy in the last round.
C25_BetterHalfSurvives ==
  [][/\ (pc = "loop_test" /\ pc' = "loop_update")
          => Len(candidates) > 1 /\ candidates' = candidates
     /\ (pc = "loop_update" /\ pc' = "loop_energies")
          => Len(candidates') = Len(candidates)
     /\ (pc = "loop_energies" /\ pc' = "loop_erase")
          => /\ Len(candidates') = Len(candidates)
             /\ {[candidates'[p] EXCEPT !.energy = 0] : p \in 1 .. Len(candidates')}
                  = {[candidates[p] EXCEPT !.energy = 0] : p \in 1 .. Len(candidates)}
     /\ pc = "loop_erase"
          => /\ \A p \in 1 .. Len(candidates) :
                  candidates[p].energy
                    = compute_pose_energy(candidates[p].cameraPose,
                                          candidates[p].inliers).value
             /\ Len(candidates') = Len(candidates) \div 2
             /\ \A p \in 1 .. Len(candidates') :
                  /\ \E q \in 1 .. Len(candidates) : candidates'[p] = candidates[q]
                  /\ \A q \in 1 .. Len(candidates) :
                       \/ \E r \in 1 .. Len(candidates') :
                            candidates'[r].cameraId = candidates[q].cameraId
                       \/ candidates'[p].energy <= candidates[q].energy
     /\ (pc = "loop_erase" /\ Len(candidates') = 1)
          => \A q \in 1 .. Len(candidates) : candidates'[1].energy <= candidates[q].energy
     /\ (pc = "SetInvM" /\ iteration > 0)
          => /\ Len(candidates) = 1
             /\ trackingState'.pose_d = candidates[1].cameraPose
    ]_vars

\* The second round has left one candidate, with the energy computed in that
\* round, and its pose is installed.
C25_Witness ==
  /\ pc = "UpdateVisibleList"
  /\ iteration = 2
  /\ Len(candidates) = 1
  /\ trackingState.pose_d = candidates[1].cameraPose
  /\ candidates[1].energy # 0

\* The first entries of an inlier list: the pairs hypothesize_pose chose.
Bootstrap(inliers) == SubSeq(inliers, 1, Min(Len(inliers), m_nbPointsForKabschBoostrap))

\* Three pairs of a pixel and a mode of its prediction, then pixels with no
\* mode assigned.
WellFormed(inliers) ==
  /\ Len(inliers) >= m_nbPointsForKabschBoostrap
  /\ \A s \in 1 .. Len(inliers) :
       /\ inliers[s][1] \in Pixels
       /\ IF s <= m_nbPointsForKabschBoostrap
          THEN inliers[s][2] >= 0 /\ inliers[s][2] < m_predictionsImage[inliers[s][1]].nbModes
          ELSE inliers[s][2] = -1

\* C26: throughout estimate_pose every candidate's inlier list is its three
\* bootstrap pairs, with a mode each, followed by entries with mode -1; the
\* bootstrap pairs of a candidate never change; all candidates carry the same
\* appended entries in the same order, hence lists of one length; and no list
\* is empty where compute_pose_energy divides by its length.
C26_InlierListShape ==
  [][/\ \A p \in 1 .. Len(candidates') :
          /\ WellFormed(candidates'[p].inliers)
          /\ \A q \in 1 .. Len(candidates') :
               /\ Len(candidates'[q].inliers) = Len(candidates'[p].inliers)
               /\ SubSeq(candidates'[q].inliers, m_nbPointsForKabschBoostrap + 1,
                         Len(candidates'[q].inliers))
                    = SubSeq(candidates'[p].inliers, m_nbPointsForKabschBoostrap + 1,
                             Len(candidates'[p].inliers))
          /\ \A q \in 1 .. Len(candidates) :
               candidates[q].cameraId = candidates'[p].cameraId
                 => Bootstrap(candidates[q].inliers) = Bootstrap(candidates'[p].inliers)
     /\ pc' \in {"trim_energies", "loop_energies"}
          => \A p \in 1 .. Len(candidates') : candidates'[p].inliers # <<>>
    ]_vars

\* Two candidates of different bootstrap pairs stand before the energies of
\* the second round with the same pixels of both rounds appended.
C26_Witness ==
  /\ pc = "loop_energies"
  /\ iteration = 2
  /\ Len(candidates) = 2
  /\ Len(candidates[1].inliers) > m_nbPointsForKabschBoostrap + m_batchSizeRansac
  /\ Bootstrap(candidates[1].inliers) # Bootstrap(candidates[2].inliers)

InLog(call) == \E k \in 1 .. Len(callLog) : callLog[k] = call

\* C27: the constructor leaves m_poseUpdate false, and a run with it false
\* never calls update_candidate_pose; in a run with it true the first round
\* of the main loop calls it, and the call throws at once: the exception is
\* in flight, no candidate's pose has changed and no pose is installed.
C27_PoseUpdateOffOrThrows ==
  [][/\ ~Constructed.m_poseUpdate
     /\ ~tunables.m_poseUpdate
          => thrown' # "not updated yet" /\ ~InLog("update_candidate_poses")'
     /\ (tunables.m_poseUpdate /\ pc = "loop_test" /\ Len(candidates) > 1)
          => pc' = "loop_update"
     /\ (tunables.m_poseUpdate /\ pc = "loop_update")
          => /\ InLog("update_candidate_poses")'
             /\ thrown' = "not updated yet"
             /\ pc' \in ThrowOutcomes
             /\ Len(candidates') = Len(candidates)
             /\ \A p \in 1 .. Len(candidates) :
                  candidates'[p].cameraPose = candidates[p].cameraPose
             /\ trackingState' = trackingState
    ]_vars

\* A run with m_poseUpdate true was ended by update_candidate_pose in its
\* first round, with the pose of the tracker as it was.
C27_Witness ==
  /\ tunables.m_poseUpdate
  /\ thrown = "not updated yet"
  /\ pc = "terminated"
  /\ iteration = 1
  /\ Len(candidates) > 1
  /\ trackingState.pose_d = LostPose

\* The calls process_relocalisation makes on the path that ends at line 162.
LiveCalls ==
  {"ComputeFeature", "evaluate_forest", "get_predictions", "estimate_pose", "SetInvM",
   "UpdateVisibleList(reset)", "prepare_for_tracking(TRACK_VOXELS)", "Track"}

CountCalls(call) == Cardinality({k \in 1 .. Len(callLog) : callLog[k] = call})

IndicesOf(w) ==
  SelectSeq([i \in 1 .. m_kInitRansac |-> i - 1], LAMBDA i : schedule[i] = w)

Range(q) == {q[k] : k \in 1 .. Len(q)}

\* What the workers produce when each runs its indices alone, from its own
\* engine seeded with its number + 1.
ProducedAlone == UNION {Range(RunIndices(Seed(w + 1), IndicesOf(w))) : w \in Workers}

\* An engine after so many calls of hypothesize_pose drew from it.
RECURSIVE EngineAfter(_, _)
EngineAfter(eng, calls) ==
  IF calls = 0 THEN eng
  ELSE CHOOSE e \in {EngineAfter(h.eng, calls - 1) : h \in {hypothesize_pose(eng)}} : TRUE

\* C29: for given images and a given assignment of the loop indices to the
\* workers, the candidates generate_pose_candidates leaves (identifier, chosen
\* pairs, pose) are the same set under every interleaving of the workers:
\* the set each worker produces by itself from its own engine, which no
\* other worker has drawn from; the vector holds each of them once, in an
\* order that depends on the interleaving.
C29_CandidatesIndependentOfInterleaving ==
  pc = "trim_test"
  => /\ Range(candidates) = ProducedAlone
     /\ Len(candidates) = Cardinality(ProducedAlone)
     /\ \A w \in Workers : engs[w] = EngineAfter(Seed(w + 1), Len(IndicesOf(w)))

\* Both workers produced candidates, and the vector holds them in an order
\* other than that of their identifiers.
C29_Witness ==
  /\ pc = "trim_test"
  /\ Len(candidates) >= 3
  /\ \E p \in 1 .. (Len(candidates) - 1) : candidates[p].cameraId > candidates[p + 1].cameraId
  /\ \E p, q \in 1 .. Len(candidates) :
       schedule[candidates[p].cameraId] # schedule[candidates[q].cameraId]

\* The places of estimate_pose where pixels are sampled, energies computed or
\* candidates erased, and the ends an exception of theirs brings.
RansacPcs ==
  {"trim_sample", "trim_update", "trim_energies", "trim_erase", "loop_update",
   "loop_energies", "loop_erase", "terminated", "propagated"}

\* C30: when generate_pose_candidates leaves exactly one candidate, neither
\* the trim nor the main loop runs: no pixel is sampled, no draw is made from
\* the engine of estimate_pose, no energy is computed, and the candidate
\* returned and installed is that one, with energy 0 and its three bootstrap
\* inliers only.
C30_SingleHypothesisUntouched ==
  nbGenerated = 1
  => /\ pc \notin RansacPcs
     /\ thrown = "no"
     /\ iteration = 0
     /\ sampledPixelIdx = <<>>
     /\ nbSamplesPerCamera = 0
     /\ maskSampledPixels.marked = {}
     /\ random_engine = Seed(defaultSeed)
     /\ Len(candidates) = 1
     /\ candidates[1].energy = 0
     /\ Len(candidates[1].inliers) = m_nbPointsForKabschBoostrap
     /\ \A s \in 1 .. Len(candidates[1].inliers) : candidates[1].inliers[s][2] >= 0
     /\ candidates[1] \in ProducedAlone
     /\ CountCalls("SetInvM") = 1 => trackingState.pose_d = candidates[1].cameraPose
     /\ pc = "returned" => CountCalls("SetInvM") = 1

\* The only hypothesis generated was installed and the call has returned.
C30_Witness ==
  /\ nbGenerated = 1
  /\ pc = "returned"
  /\ CountCalls("SetInvM") = 1
  /\ candidates[1].energy = 0
  /\ trackingState.pose_d = candidates[1].cameraPose

====
